---- MODULE Spec2Model ----
(***************************************************************************)
(* A model of the extraction and convergence logic of notebooklm-skill:    *)
(*   - the answer-polling loop of ask_notebooklm (scripts/ask_question.py) *)
(*   - the scroll-and-sample loop of download_source                       *)
(*     (scripts/download_source.py)                                        *)
(*   - clean_source_content (scripts/download_source.py)                   *)
(*   - the source extraction and de-duplication of list_sources            *)
(*     (scripts/list_sources.py)                                           *)
(* One run of the model is one invocation of one script: op names it.      *)
(***************************************************************************)
EXTENDS Integers, Sequences, FiniteSets, TLC

VARIABLES
    op,             \* the operation this run performs
    \* ---- ask_notebooklm, ask_question.py:191-238
    apc,            \* position in the polling code
    now,            \* time.time(), in seconds since the deadline was set
    deadline,       \* ask_question.py:194
    answer,         \* ask_question.py:191
    stable_count,   \* ask_question.py:192
    last_text,      \* ask_question.py:193
    text,           \* ask_question.py:213, the latest sample read
    selector,       \* index into RESPONSE_SELECTORS of the for loop, line 207
    thinking,       \* what the busy check of this iteration saw, line 199-204
    aexit,          \* how the while loop was left
    result,         \* the value ask_notebooklm returned
    samples,        \* history: the non-empty samples read so far
    bumps,          \* history: counter increments in the current iteration
    \* ---- download_source, download_source.py:313-607
    dpc,            \* position in download_source
    scroll_attempts,\* download_source.py:314
    last_length,    \* download_source.py:316
    snapshot,       \* content_result of the current cycle, line 322
    prev_snapshot,  \* history: content_result of the cycle before
    last_change,    \* history: last cycle whose snapshot differed from the
                    \* one before it
    dexit,          \* how the scroll loop was left
    dstatus,        \* "status" of the dict download_source returned
    content,        \* download_source.py:526
    derror,         \* "error" of the dict download_source returned
    output_file,    \* the text of the file written at lines 586-587
    \* ---- notebook_config.py
    last_notebook,  \* config.json: last_notebook_id and last_notebook_name
    \* ---- clean_source_content, download_source.py:21-143
    cpc,            \* "call" before the call, "done" after it
    lines,          \* download_source.py:39, raw_content.split('\n')
    source_name,    \* the argument source_name
    start_idx,      \* download_source.py:45
    end_idx,        \* download_source.py:46
    cleaned_lines,  \* download_source.py:104, as returned at line 143
    \* ---- list_sources, list_sources.py:128-367
    lpc,            \* position in list_sources
    page_rows,      \* the rows of the sources panel: name and type texts
    source_elements,\* list_sources.py:148: whether a selector found elements
    sources,        \* list_sources.py:130
    unique_sources, \* list_sources.py:340
    lstatus,        \* "status" of the dict list_sources returned
    lrun,           \* "first" or "second": the call of list_sources
    lpath,          \* how the running call got its sources
    first_result,   \* what the first call returned as "sources"
    first_path,     \* lpath of the first call
    \* ---- one run of a script on a notebook
    rpc,            \* where the run is
    script,         \* the script that runs
    args,           \* notebook_url, notebook_id and notebook_name given
    confirm,        \* the confirm argument
    listing,        \* what list_notebooks returns during the run
    resolved,       \* the notebook the arguments were resolved to
    rstatus,        \* "status" of the result, None for an answer of None
    clicks,         \* the buttons delete_notebook clicked, in order
    deleted,        \* the ids delete_notebook reported deleted
    runs,           \* how many scripts have been started
    \* ---- cleanup_manager.py
    kpc,            \* where the run of cleanup_manager is
    kconfirm,       \* args.confirm
    files,          \* the data directory: what exists of its three items
    kitems,          \* the kitems preview_cleanup returned
    kdeleted,       \* the items perform_cleanup deleted
    kruns,          \* how many times cleanup_manager has been started
    \* ---- toggle_source, toggle_source.py:56-245
    tpc,            \* where the call is
    activate,       \* the activate argument: "True", "False" or "None"
    tname,          \* source_name
    checkboxes,     \* the mat-checkbox rows of the page: text and state
    before,         \* checkboxes when the call began
    tclicked,       \* the index of the checkbox the call clicked, or 0
    treturn,        \* what the call returned
    tprev,          \* the arguments and the status of the call before
    truns,          \* how many calls have been started
    \* ---- browser_session, browser_utils.py:16-53
    spc,            \* where the session is
    playwright,     \* "none", "started", "stopped" or "stop failed"
    context,        \* "none", "open", "closed" or "close failed"
    sexit,          \* how the body was left
    slog,           \* the calls of close() and stop() made, in order
    sruns,          \* how many sessions have been started
    \* ---- two processes on config.json, notebook_config.py:14-50
    ppc,            \* where each process is
    task,           \* what each process does with config.json
    loaded,         \* config of each process, as _load_config returned it
    got,            \* what get_last_notebook returned to each process
    file0,          \* config.json before either process began
    upc,            \* add_url_source: "setup", "while" or "done"
    uelapsed,       \* time.time() - start_time at the last loop head
    alert,          \* the error alert of the page at the next look
    loading,        \* the loading indicator of the page at the next look
    listed,         \* whether the source list shows the URL at the next look
    uresult,        \* what add_url_source returned
    ubusy,          \* every iteration so far saw the loading indicator
    mpc,            \* remove_source: "open", "lookup", "row", "fallback",
                    \* "confirm" or "done"
    mnow,           \* seconds since the lookup deadline was set
    shown,          \* whether the page text shows the source at the next look
    mconfirm,       \* the confirm argument of remove_source
    more_menu,      \* what the more-options menu of the source row offers
    context_menu,   \* what the right-click menu of the source offers
    confirm_button, \* whether a confirmation button becomes visible
    mclicks,        \* what remove_source clicked, in order
    mresult         \* what remove_source returned

askVars == <<apc, now, deadline, answer, stable_count, last_text, text,
             selector, thinking, aexit, result, samples, bumps>>

downloadVars == <<dpc, scroll_attempts, last_length, snapshot, prev_snapshot,
                  last_change, dexit, dstatus, content, derror, output_file>>

configVars == <<last_notebook>>

\* what the scroll loop of download_source leaves alone
extractVars == <<content, derror, output_file, last_notebook>>

cleanVars == <<cpc, lines, source_name, start_idx, end_idx, cleaned_lines>>

listVars == <<lpc, page_rows, source_elements, sources, unique_sources,
              lstatus, lrun, lpath, first_result, first_path>>

\* what a step of list_sources before its return leaves alone
listKept == <<page_rows, lrun, first_result, first_path, last_notebook>>

runVars == <<rpc, script, args, confirm, listing, resolved, rstatus, clicks,
             deleted, runs>>

\* the state of the scripts modelled as a whole run
cleanupVars == <<kpc, kconfirm, files, kitems, kdeleted, kruns>>

toggleVars == <<tpc, activate, tname, checkboxes, before, tclicked, treturn,
                tprev, truns>>

sessionVars == <<spc, playwright, context, sexit, slog, sruns>>

concVars == <<ppc, task, loaded, got, file0>>

addUrlVars == <<upc, uelapsed, alert, loading, listed, uresult, ubusy>>

removeVars == <<mpc, mnow, shown, mconfirm, more_menu, context_menu,
                confirm_button, mclicks, mresult>>

sourceVars == <<addUrlVars, removeVars>>

scriptVars == <<runVars, cleanupVars, toggleVars, sessionVars, concVars, sourceVars>>

\* what an operation leaves alone: the state of the other operations
notAskVars == <<downloadVars, cleanVars, listVars, configVars, scriptVars>>
notDownloadVars == <<askVars, cleanVars, listVars, scriptVars>>
notCleanVars == <<askVars, downloadVars, listVars, configVars, scriptVars>>
notListVars == <<askVars, downloadVars, cleanVars, scriptVars>>
notRunVars == <<askVars, downloadVars, cleanVars, listVars, cleanupVars,
                toggleVars, sessionVars, concVars, sourceVars>>
notCleanupVars == <<askVars, downloadVars, cleanVars, listVars, runVars,
                    toggleVars, sessionVars, concVars, sourceVars>>
notToggleVars == <<askVars, downloadVars, cleanVars, listVars, runVars,
                   cleanupVars, sessionVars, concVars, sourceVars>>
notSessionVars == <<askVars, downloadVars, cleanVars, listVars, configVars,
                    runVars, cleanupVars, toggleVars, concVars, sourceVars>>
notConcVars == <<askVars, downloadVars, cleanVars, listVars, runVars,
                 cleanupVars, toggleVars, sessionVars, sourceVars>>

notAddUrlVars == <<askVars, downloadVars, cleanVars, listVars, configVars,
                   runVars, cleanupVars, toggleVars, sessionVars, concVars,
                   removeVars>>
notRemoveVars == <<askVars, downloadVars, cleanVars, listVars, runVars,
                   cleanupVars, toggleVars, sessionVars, concVars,
                   addUrlVars>>

vars == <<op, askVars, downloadVars, cleanVars, listVars, configVars,
          scriptVars>>

----------------------------------------------------------------------------
(* Values *)

None == "None"

\* The texts a response element can show (after strip()); "" is an element
\* whose text is empty.
Texts == {"a", "b", ""}

\* Python truthiness of an Optional[str]
Truthy(x) == x # None /\ x # ""

\* ask_question.py:28
FOLLOW_UP_REMINDER == "FOLLOW_UP_REMINDER"

\* ask_question.py:194: deadline = time.time() + 120
DeadlineSeconds == 120

\* ask_question.py:218: if stable_count >= 3
requiredStableCount == 3

\* config.py:23-27: RESPONSE_SELECTORS has three entries
NumResponseSelectors == 3

\* One time.sleep(1) plus the time the page queries of the iteration took
\* lets the clock advance by 1..MaxSleepStep seconds.
MaxSleepStep == 2

----------------------------------------------------------------------------
(* History of samples: kept exactly while it is a prefix of the stability
   case "a","a","a","b","b","b" followed by one more "b"; any other history,
   or an iteration that saw the busy indicator, is recorded as Other. *)

StabilityCase == <<"a", "a", "a", "b", "b", "b">>
StabilityCaseThenB == StabilityCase \o <<"b">>
Other == <<"other">>

IsPrefix(s, t) == Len(s) <= Len(t) /\ SubSeq(t, 1, Len(s)) = s

Track(h, t) ==
    IF h # Other /\ IsPrefix(h \o <<t>>, StabilityCaseThenB)
    THEN h \o <<t>>
    ELSE Other

----------------------------------------------------------------------------
(* ask_notebooklm: the polling loop, ask_question.py:191-238 *)

StableReached_Early(c) == c >= requiredStableCount - 1

\* line 218
StableReached(c) == c >= requiredStableCount

CountAfterChange_Kept(c) == c

\* line 222: stable_count = 0
CountAfterChange(c) == 0

BaselineAfterChange_Kept(last, t) == last

\* line 223: last_text = text
BaselineAfterChange(last, t) == t

Sleep_NoAdvance == \E d \in 0..MaxSleepStep : now' = now + d

\* lines 201 and 230: time.sleep(1)
Sleep == \E d \in 1..MaxSleepStep : now' = now + d

\* line 196: while time.time() < deadline
AskLoopHead ==
    /\ op = "ask" /\ apc = "while"
    /\ IF now < deadline
       THEN /\ apc' = "thinking"
            /\ aexit' = aexit
       ELSE /\ apc' = "after"
            /\ aexit' = "deadline"
    /\ bumps' = 0
    /\ UNCHANGED <<notAskVars, op, now, deadline, answer, stable_count, last_text, text,
                   selector, thinking, result, samples>>

ThinkingVisible_FallsThrough ==
    /\ op = "ask" /\ apc = "thinking"
    /\ thinking' = "visible"
    /\ Sleep
    /\ apc' = "select"
    /\ selector' = 1
    /\ samples' = Other
    /\ UNCHANGED <<notAskVars, op, deadline, answer, stable_count, last_text, text,
                   aexit, result, bumps>>

\* lines 198-202: the thinking indicator is visible: sleep and continue
ThinkingVisible ==
    /\ op = "ask" /\ apc = "thinking"
    /\ thinking' = "visible"
    /\ Sleep
    /\ apc' = "while"
    /\ samples' = Other
    /\ UNCHANGED <<notAskVars, op, deadline, answer, stable_count, last_text, text,
                   selector, aexit, result, bumps>>

\* lines 198-204: no indicator, an invisible one, or the query raised (pass)
ThinkingClear ==
    /\ op = "ask" /\ apc = "thinking"
    /\ \E v \in {"hidden", "raised"} : thinking' = v
    /\ apc' = "select"
    /\ selector' = 1
    /\ UNCHANGED <<notAskVars, op, now, deadline, answer, stable_count, last_text, text,
                   aexit, result, samples, bumps>>

\* the for loop moves to the next selector, or ends after the last one
NextSelector ==
    IF selector < NumResponseSelectors
    THEN /\ selector' = selector + 1
         /\ apc' = "select"
    ELSE /\ selector' = selector
         /\ apc' = "endfor"

\* lines 208-210, 224-225: the selector matches nothing, or the query or
\* inner_text() raises: continue with the next selector
SelectorMisses ==
    /\ op = "ask" /\ apc = "select"
    /\ NextSelector
    /\ UNCHANGED <<notAskVars, op, now, deadline, answer, stable_count, last_text, text,
                   thinking, aexit, result, samples, bumps>>

\* lines 211-223: the selector matches; the newest element's text is read
SelectorReads(t) ==
    /\ op = "ask" /\ apc = "select"
    /\ text' = t
    /\ IF t # ""
       THEN /\ samples' = Track(samples, t)
            /\ IF t = last_text
               THEN /\ stable_count' = stable_count + 1
                    /\ bumps' = bumps + 1
                    /\ last_text' = last_text
                    /\ IF StableReached(stable_count + 1)
                       THEN /\ answer' = t
                            /\ apc' = "endfor"          \* break, line 220
                            /\ selector' = selector
                       ELSE /\ answer' = answer
                            /\ NextSelector
               ELSE /\ stable_count' = CountAfterChange(stable_count)
                    /\ last_text' = BaselineAfterChange(last_text, t)
                    /\ NextSelector
                    /\ UNCHANGED <<answer, bumps>>
       ELSE /\ NextSelector
            /\ UNCHANGED <<answer, stable_count, last_text, samples, bumps>>
    /\ UNCHANGED <<notAskVars, op, now, deadline, thinking, aexit, result>>

SelectorMatches == \E t \in Texts : SelectorReads(t)

\* lines 227-228: if answer: break
AskBreak ==
    /\ op = "ask" /\ apc = "endfor"
    /\ Truthy(answer)
    /\ apc' = "after"
    /\ aexit' = "break"
    /\ UNCHANGED <<notAskVars, op, now, deadline, answer, stable_count, last_text, text,
                   selector, thinking, result, samples, bumps>>

AskSleep_IgnoresAnswer ==
    /\ op = "ask" /\ apc = "endfor"
    /\ Sleep
    /\ apc' = "while"
    /\ UNCHANGED <<notAskVars, op, deadline, answer, stable_count, last_text,
                   text, selector, thinking, aexit, result, samples, bumps>>

\* line 230: time.sleep(1), then the next iteration
AskSleep ==
    /\ op = "ask" /\ apc = "endfor"
    /\ ~Truthy(answer)
    /\ Sleep
    /\ apc' = "while"
    /\ UNCHANGED <<notAskVars, op, deadline, answer, stable_count, last_text, text,
                   selector, thinking, aexit, result, samples, bumps>>

AskReturn_Partial ==
    /\ op = "ask" /\ apc = "after"
    /\ result' = IF Truthy(answer) THEN <<answer, FOLLOW_UP_REMINDER>>
                 ELSE IF Truthy(last_text)
                      THEN <<last_text, FOLLOW_UP_REMINDER>>
                      ELSE None
    /\ apc' = "done"
    /\ UNCHANGED <<notAskVars, op, now, deadline, answer, stable_count, last_text, text,
                   selector, thinking, aexit, samples, bumps>>

\* lines 232-238
AskReturn ==
    /\ op = "ask" /\ apc = "after"
    /\ result' = IF ~Truthy(answer) THEN None
                 ELSE <<answer, FOLLOW_UP_REMINDER>>
    /\ apc' = "done"
    /\ UNCHANGED <<notAskVars, op, now, deadline, answer, stable_count, last_text, text,
                   selector, thinking, aexit, samples, bumps>>

AskInit ==
    /\ apc = "while"
    /\ now = 0
    /\ deadline = now + DeadlineSeconds
    /\ answer = None
    /\ stable_count = 0
    /\ last_text = None
    /\ text = None
    /\ selector = 1
    /\ thinking = "hidden"
    /\ aexit = "sampling"
    /\ result = None
    /\ samples = <<>>
    /\ bumps = 0

AskNext ==
    \/ AskLoopHead
    \/ ThinkingVisible
    \/ ThinkingClear
    \/ SelectorMisses
    \/ SelectorMatches
    \/ AskBreak
    \/ AskSleep
    \/ AskReturn

----------------------------------------------------------------------------
(* notebook_config.py: the last-used notebook kept in data/config.json *)

\* None where the code otherwise holds a str (a str is a sequence of
\* characters, and this is none of them)
NoText == <<None>>

\* truthiness of an Optional[str] held as a sequence
Given(x) == x # NoText /\ x # <<>>

\* lines 38 and 73: the text every notebook URL starts with, one element
NotebookUrlPrefix == <<"https://notebooklm.google.com/notebook/">>

\* f"https://notebooklm.google.com/notebook/{notebook_id}"
NotebookUrl(notebook_id) == NotebookUrlPrefix \o notebook_id

\* the ids of two notebooks of the account
IdA == <<"1a">>
IdB == <<"2b">>

\* _load_config of a missing or unreadable file: {}
EmptyConfig == [id |-> NoText, name |-> NoText]

\* what get_last_notebook returns as None
NoLast == [id |-> NoText, url |-> NoText, name |-> NoText]

\* lines 33-42
get_last_notebook(config) ==
    IF Given(config.id)
    THEN [id |-> config.id, url |-> NotebookUrl(config.id),
          name |-> IF config.name = NoText THEN <<>> ELSE config.name]
    ELSE NoLast

\* lines 45-50: both keys are replaced
set_last_notebook(config, notebook_id, name) ==
    [config EXCEPT !.id = notebook_id, !.name = name]

----------------------------------------------------------------------------
(* download_source: the scroll-and-sample loop, download_source.py:313-410,
   and what follows it *)

\* lines 603-607: str(e) of an exception raised inside download_source
ExceptionText == "exception"

\* the notebook URL the operation runs against, which set_last_notebook
\* is given (resolved_url)
resolved_url == NotebookUrl(IdA)

\* download_source.py:315
max_scrolls == 30

\* The texts the content panel can show are numbered 1..MaxContent; two
\* different texts can have the same length.
MaxContent == 4
Contents == 1..MaxContent

\* line 378 is false: content_result is None, or holds no 'content'
NoContent == 0

\* before the first cycle: no content_result yet
NoSnapshot == -1

\* download_source.py:340 and 355: only a text longer than 200 characters is
\* returned by the page script
MinContentLength == 200

\* line 379: len(content_result['content'])
ContentLen(c) == MinContentLength + ((c + 1) \div 2)

\* line 381: current_length == last_length
SameLength(current_length) == current_length = last_length

LengthAfterGrowth_Stale(current_length) == last_length

\* line 385: last_length = current_length
LengthAfterGrowth(current_length) == current_length

MoreAttempts_OffByOne == scroll_attempts <= max_scrolls

\* line 318: while scroll_attempts < max_scrolls
MoreAttempts == scroll_attempts < max_scrolls

\* history of the snapshots
Observe(s) ==
    /\ snapshot' = s
    /\ prev_snapshot' = snapshot
    /\ last_change' = IF s # snapshot THEN scroll_attempts + 1 ELSE last_change

\* lines 318-383: a cycle whose content has the length of the cycle before
SnapshotSame ==
    /\ op = "download" /\ dpc = "scroll" /\ MoreAttempts
    /\ \E c \in Contents :
          /\ SameLength(ContentLen(c))
          /\ Observe(c)
    /\ scroll_attempts' = scroll_attempts + 1
    /\ dpc' = "extract"
    /\ dexit' = "converged"
    /\ UNCHANGED <<notDownloadVars, extractVars, op, last_length, dstatus>>

\* lines 318-408: a cycle whose content has another length: scroll on
SnapshotGrew ==
    /\ op = "download" /\ dpc = "scroll" /\ MoreAttempts
    /\ \E c \in Contents :
          /\ ~SameLength(ContentLen(c))
          /\ Observe(c)
          /\ last_length' = LengthAfterGrowth(ContentLen(c))
    /\ scroll_attempts' = scroll_attempts + 1
    /\ UNCHANGED <<notDownloadVars, extractVars, op, dpc, dexit, dstatus>>

\* lines 409-410: the cycle finds no content: break
SnapshotMissing ==
    /\ op = "download" /\ dpc = "scroll" /\ MoreAttempts
    /\ Observe(NoContent)
    /\ scroll_attempts' = scroll_attempts + 1
    /\ dpc' = "extract"
    /\ dexit' = "nocontent"
    /\ UNCHANGED <<notDownloadVars, extractVars, op, last_length, dstatus>>

\* lines 322, 388 and 603-607: page.evaluate raises; download_source returns
\* status error
SnapshotRaises ==
    /\ op = "download" /\ dpc = "scroll" /\ MoreAttempts
    /\ scroll_attempts' = scroll_attempts + 1
    /\ dpc' = "done"
    /\ dexit' = "raised"
    /\ dstatus' = "error"
    /\ derror' = ExceptionText
    /\ UNCHANGED <<notDownloadVars, op, last_length, snapshot, prev_snapshot,
                   last_change, content, output_file, last_notebook>>

\* line 318: the condition of the while loop is false
ScrollExhausted ==
    /\ op = "download" /\ dpc = "scroll" /\ ~MoreAttempts
    /\ dpc' = "extract"
    /\ dexit' = "exhausted"
    /\ UNCHANGED <<notDownloadVars, extractVars, op, scroll_attempts, last_length, snapshot,
                   prev_snapshot, last_change, dstatus>>

----------------------------------------------------------------------------
(* Strings. A Python str is modelled as the sequence of its characters, so
   that strip(), lower(), `in`, replace() and len() are computed as Python
   computes them. *)

\* the letters that str.lower() changes (ASCII)
UpperLetters == {"A", "B", "C", "D", "E", "F", "G", "H", "I", "J", "K", "L", "M",
                 "N", "O", "P", "Q", "R", "S", "T", "U", "V", "W", "X", "Y", "Z"}

\* str.lower() on one character (ASCII letters)
LowerChar(c) ==
    IF c \notin UpperLetters THEN c
    ELSE CASE c = "A" -> "a"
           [] c = "B" -> "b"
           [] c = "C" -> "c"
           [] c = "D" -> "d"
           [] c = "E" -> "e"
           [] c = "F" -> "f"
           [] c = "G" -> "g"
           [] c = "H" -> "h"
           [] c = "I" -> "i"
           [] c = "J" -> "j"
           [] c = "K" -> "k"
           [] c = "L" -> "l"
           [] c = "M" -> "m"
           [] c = "N" -> "n"
           [] c = "O" -> "o"
           [] c = "P" -> "p"
           [] c = "Q" -> "q"
           [] c = "R" -> "r"
           [] c = "S" -> "s"
           [] c = "T" -> "t"
           [] c = "U" -> "u"
           [] c = "V" -> "v"
           [] c = "W" -> "w"
           [] c = "X" -> "x"
           [] c = "Y" -> "y"
           [] c = "Z" -> "z"
           [] OTHER -> c

\* str.lower()
Lower(s) == [i \in 1..Len(s) |-> LowerChar(s[i])]

\* the characters str.strip() removes
IsSpace(c) == c \in {" ", "\t", "\r"}

\* str.isdigit() on one character
IsDigit(c) == c \in {"0", "1", "2", "3", "4", "5", "6", "7", "8", "9"}

RECURSIVE LStrip(_)
LStrip(s) ==
    IF s # <<>> /\ IsSpace(Head(s)) THEN LStrip(Tail(s)) ELSE s

RECURSIVE RStrip(_)
RStrip(s) ==
    IF s # <<>> /\ IsSpace(s[Len(s)])
    THEN RStrip(SubSeq(s, 1, Len(s) - 1))
    ELSE s

\* str.strip()
Strip(s) == RStrip(LStrip(s))

\* sub == s[i : i + len(sub)], i counted from 1
MatchesAt(sub, s, i) ==
    /\ i + Len(sub) - 1 <= Len(s)
    /\ \A k \in 1..Len(sub) : s[i + k - 1] = sub[k]

\* Python's `sub in s`
Contains(sub, s) ==
    \/ sub = <<>>
    \/ \E i \in 1..Len(s) : s[i] = sub[1] /\ MatchesAt(sub, s, i)

\* str.replace(old, new) for a non-empty old: left to right, not overlapping
RECURSIVE Replace(_, _, _)
Replace(s, old, new) ==
    IF ~Contains(old, s) THEN s
    ELSE LET first == CHOOSE i \in 1..Len(s) :
                          /\ MatchesAt(old, s, i)
                          /\ \A j \in 1..(i - 1) : ~MatchesAt(old, s, j)
         IN  SubSeq(s, 1, first - 1) \o new
                 \o Replace(SubSeq(s, first + Len(old), Len(s)), old, new)

----------------------------------------------------------------------------
(* clean_source_content, download_source.py:21-143.
   raw_content is held as raw_content.split('\n') (line 39), the returned
   text as the list cleaned_lines that line 143 joins with '\n'. *)

\* line 51: ['Source guide', 'arrow_drop_down']
start_markers ==
    { <<"S", "o", "u", "r", "c", "e", " ", "g", "u", "i", "d", "e">>,
      <<"a", "r", "r", "o", "w", "_", "d", "r", "o", "p", "_", "d", "o",
        "w", "n">> }

\* lines 59-67
end_markers ==
    << <<"t", "u", "n", "e", " ", "m", "o", "r", "e", "_", "v", "e", "r",
         "t">>,
       <<"S", "e", "a", "r", "c", "h", " ", "r", "e", "s", "u", "l", "t",
         "s">>,
       <<"N", "o", " ", "e", "m", "o", "j", "i", " ", "f", "o", "u", "n",
         "d">>,
       <<"R", "e", "c", "e", "n", "t", "l", "y", " ", "u", "s", "e", "d">>,
       <<"s", "o", "u", "r", "c", "e", "s", " ", "T", "h", "e", " ", "p",
         "r", "o", "v", "i", "d", "e", "d", " ", "s", "o", "u", "r", "c",
         "e", "s">>,
       <<"k", "e", "e", "p", " ", "S", "a", "v", "e", " ", "t", "o", " ",
         "n", "o", "t", "e">>,
       <<"k", "e", "y", "b", "o", "a", "r", "d", "_", "a", "r", "r", "o",
         "w", "_", "d", "o", "w", "n", " ", "d", "o", "c", "s">> >>

\* lines 84-97
ui_line_markers ==
    << <<"P", "r", "o", "j", "e", "c", "t", ":", " ", "O", "p", "e", "n",
         " ", "C", "o", "m", "p", "a", "n", "y", " ", "-", " ", "N", "o",
         "t", "e", "b", "o", "o", "k", "L", "M">>,
       <<"C", "r", "e", "a", "t", "e", " ", "n", "o", "t", "e", "b", "o",
         "o", "k">>,
       <<"t", "r", "e", "n", "d", "i", "n", "g", "_", "u", "p">>,
       <<"S", "o", "u", "r", "c", "e", "s", " ", "C", "h", "a", "t", " ",
         "S", "t", "u", "d", "i", "o">>,
       <<"S", "o", "u", "r", "c", "e", " ", "g", "u", "i", "d", "e">>,
       <<"a", "r", "r", "o", "w", "_", "d", "r", "o", "p", "_", "d", "o",
         "w", "n">>,
       <<"a", "r", "r", "o", "w", "_", "b", "a", "c", "k">>,
       <<"b", "u", "t", "t", "o", "n", "_", "m", "a", "g", "i", "c">>,
       <<"G", "o", "o", "g", "l", "e", " ", "a", "p", "p", "s">>,
       <<"G", "o", "o", "g", "l", "e", " ", "A", "c", "c", "o", "u", "n",
         "t">>,
       <<"e", "l", "f", "e", "n", "l", "i", "e", "d", "s", "p", "@", "g",
         "m", "a", "i", "l", ".", "c", "o", "m">>,
       <<"L", "o", "a", "d", "i", "n", "g">> >>

\* lines 99-102
icon_words ==
    { <<"s", "e", "t", "t", "i", "n", "g", "s">>,
      <<"P", "R", "O">>,
      <<"a", "d", "d">>,
      <<"s", "h", "a", "r", "e">>,
      <<"a", "r", "r", "o", "w", "_", "f", "o", "r", "w", "a", "r", "d">>,
      <<"k", "e", "e", "p">>,
      <<"k", "e", "e", "p", "_", "p", "i", "n">>,
      <<"d", "o", "c", "s">>,
      <<"k", "e", "y", "b", "o", "a", "r", "d", "_", "a", "r", "r", "o",
        "w", "_", "d", "o", "w", "n">>,
      <<"t", "u", "n", "e">>,
      <<"m", "o", "r", "e", "_", "v", "e", "r", "t">>,
      <<"&", "n", "b", "s", "p", ";">> }

\* line 54: source_name.replace('.md', '')
Hint(name) == Replace(name, <<".", "m", "d">>, <<>>)

\* lines 50-56: the line is a start marker, or contains the source name
MovesStart(line, name) ==
    LET stripped == Strip(line)
    IN  \/ stripped \in start_markers
        \/ Contains(Hint(name), Lower(stripped))

\* lines 45-56; i is the index of enumerate(), counted from 0
RECURSIVE FindStart(_, _, _, _)
FindStart(ls, name, i, start) ==
    IF i >= Len(ls) THEN start
    ELSE FindStart(ls, name, i + 1,
                   IF MovesStart(ls[i + 1], name) THEN i + 1 ELSE start)

\* lines 73-76: marker in stripped, for some end marker
HasEndMarker(stripped) ==
    \E k \in 1..Len(end_markers) : Contains(end_markers[k], stripped)

\* the end search finding no marker: the content runs to the end of the text
FindEnd_NoMarker(ls, start) == Len(ls)

\* lines 69-78: the first index after start_idx whose line has an end marker
FindEnd(ls, start) ==
    LET hits == {i \in 0..(Len(ls) - 1) :
                    i > start /\ HasEndMarker(Strip(ls[i + 1]))}
    IN  IF hits = {} THEN Len(ls)
        ELSE CHOOSE i \in hits : \A j \in hits : i <= j

\* line 81: lines[start_idx:end_idx]
Slice(ls, start, end) == SubSeq(ls, start + 1, end)

\* lines 116-119
IsUiLine(stripped) ==
    \E k \in 1..Len(ui_line_markers) : Contains(ui_line_markers[k], stripped)

\* the short-line test without the exception for digits
IsShortLine_NoDigitException(stripped) == Len(stripped) < 3

\* line 128: len(stripped) < 3 and not stripped[0].isdigit()
IsShortLine(stripped) == Len(stripped) < 3 /\ ~IsDigit(stripped[1])

\* lines 114-129: a non-blank line that is skipped
Skipped(stripped) ==
    \/ IsUiLine(stripped)
    \/ stripped \in icon_words
    \/ IsShortLine(stripped)

\* lines 132-135
FixEntities(stripped) ==
    Replace(Replace(Replace(Replace(stripped,
        <<"&", "n", "b", "s", "p", ";">>, <<" ">>),
        <<"&", "a", "m", "p", ";">>, <<"&">>),
        <<"&", "l", "t", ";">>, <<"<">>),
        <<"&", "g", "t", ";">>, <<">">>)

\* lines 104-137: the loop over content_lines, acc is cleaned_lines so far
RECURSIVE CleanLoop(_, _)
CleanLoop(content_lines, acc) ==
    IF content_lines = <<>> THEN acc
    ELSE LET stripped == Strip(Head(content_lines))
             rest == Tail(content_lines)
         IN  IF stripped = <<>>
             THEN IF acc # <<>> /\ acc[Len(acc)] # <<>>
                  THEN CleanLoop(rest, Append(acc, <<>>))
                  ELSE CleanLoop(rest, acc)
             ELSE IF Skipped(stripped)
                  THEN CleanLoop(rest, acc)
                  ELSE CleanLoop(rest, Append(acc, FixEntities(stripped)))

\* lines 140-141
RECURSIVE PopTrailingBlank(_)
PopTrailingBlank(acc) ==
    IF acc # <<>> /\ acc[Len(acc)] = <<>>
    THEN PopTrailingBlank(SubSeq(acc, 1, Len(acc) - 1))
    ELSE acc

\* line 143: '\n'.join(cleaned_lines)
RECURSIVE Join(_)
Join(ls) ==
    IF ls = <<>> THEN <<>>
    ELSE IF Len(ls) = 1 THEN ls[1]
    ELSE ls[1] \o <<"\n">> \o Join(Tail(ls))

\* lines 39-143, on raw_content.split('\n')
clean_source_content(ls, name) ==
    LET start == FindStart(ls, name, 0, 0)
        end == FindEnd(ls, start)
    IN  Join(PopTrailingBlank(CleanLoop(Slice(ls, start, end), <<>>)))

\* lines 39-143
CleanCall ==
    /\ op = "clean" /\ cpc = "call"
    /\ LET start == FindStart(lines, source_name, 0, 0)
           end == FindEnd(lines, start)
       IN  /\ start_idx' = start
           /\ end_idx' = end
           /\ cleaned_lines' =
                 PopTrailingBlank(CleanLoop(Slice(lines, start, end), <<>>))
    /\ cpc' = "done"
    /\ UNCHANGED <<notCleanVars, op, lines, source_name>>

\* The lines a raw text is made of, and the source names
\* 'Source guide'
SourceGuideLine == <<"S", "o", "u", "r", "c", "e", " ", "g", "u", "i", "d",
    "e">>
\* 'notes.md'
FileNameLine == <<"n", "o", "t", "e", "s", ".", "m", "d">>
\* 'see notes'
MentionLine == <<"s", "e", "e", " ", "n", "o", "t", "e", "s">>
\* 'body text'
BodyLine == <<"b", "o", "d", "y", " ", "t", "e", "x", "t">>
\* 'tune more_vert'
TuneLine == <<"t", "u", "n", "e", " ", "m", "o", "r", "e", "_", "v", "e",
    "r", "t">>
\* ''
BlankLine == <<>>
\* 'ab'
ShortLine == <<"a", "b">>
\* 'Loading data'
LoadingDataLine == <<"L", "o", "a", "d", "i", "n", "g", " ", "d", "a", "t",
    "a">>
\* 'no Search results'
SearchSentenceLine == <<"n", "o", " ", "S", "e", "a", "r", "c", "h", " ",
                        "r", "e", "s", "u", "l", "t", "s">>
\* 'keep'
KeepLine == <<"k", "e", "e", "p">>
\* '12'
NumberLine == <<"1", "2">>
\* '1a'
DigitLetterLine == <<"1", "a">>
\* '&nbsp;&nbsp;'
EntityLine == <<"&", "n", "b", "s", "p", ";", "&", "n", "b", "s", "p", ";">>
\* the six lines 'chrome1', 'Source guide', 'REAL LINE 1', 'REAL LINE 2',
\* 'tune more_vert', 'chrome2'
BoundaryCase ==
    << <<"c", "h", "r", "o", "m", "e", "1">>,
       <<"S", "o", "u", "r", "c", "e", " ", "g", "u", "i", "d", "e">>,
       <<"R", "E", "A", "L", " ", "L", "I", "N", "E", " ", "1">>,
       <<"R", "E", "A", "L", " ", "L", "I", "N", "E", " ", "2">>,
       <<"t", "u", "n", "e", " ", "m", "o", "r", "e", "_", "v", "e", "r", "t">>,
       <<"c", "h", "r", "o", "m", "e", "2">> >>
\* 'notes.md'
NotesMd == <<"n", "o", "t", "e", "s", ".", "m", "d">>
\* 'Report.md'
ReportMd == <<"R", "e", "p", "o", "r", "t", ".", "m", "d">>

LinePool == {SourceGuideLine, FileNameLine, MentionLine, BodyLine, TuneLine,
             BlankLine, ShortLine, LoadingDataLine, SearchSentenceLine,
             KeepLine, NumberLine, DigitLetterLine, EntityLine}

SourceNames == {NotesMd, ReportMd}

\* a raw text has at most MaxLines lines (split() yields at least one), or
\* is the six line text BoundaryCase
MaxLines == 3

RawTexts ==
    (UNION {[1..n -> LinePool] : n \in 1..MaxLines}) \cup {BoundaryCase}

CleanInit ==
    /\ cpc = "call"
    /\ IF op = "clean"
       THEN lines \in RawTexts /\ source_name \in SourceNames
       ELSE lines = <<BlankLine>> /\ source_name = NotesMd
    /\ start_idx = 0
    /\ end_idx = 0
    /\ cleaned_lines = <<>>

CleanNext == CleanCall

----------------------------------------------------------------------------
(* download_source after the scroll loop: the final extraction, the fallback
   to the text of the whole page, and the saving, download_source.py:412-607 *)

\* line 298: the name of the source that was opened
actual_name == NotesMd

\* line 564: the page text must be longer than this to be used
MinPageTextLength == 500

\* a run of n characters of text without blanks or markers
Filler(n) == [i \in 1..n |-> "x"]

\* What the panel can give as 'sidenav-filtered' content (lines 473-488): the
\* non-empty trimmed lines that passed the filters, joined
FilteredContents == {Join(<<BodyLine>>), Join(<<BodyLine, KeepLine>>)}

\* What the panel can give as 'sidenav-raw' or 'body-fallback' content
\* (lines 491-514): a non-empty text, here split into its lines
RawContents == {<<SourceGuideLine, BodyLine>>, <<KeepLine>>,
                <<LoadingDataLine, ShortLine>>}

\* What lines 557-562 can leave of the HTML of the page: one line, blanks
\* collapsed; a long text, a long text that starts with 'Loading', a short one
PageTexts == {Filler(MinPageTextLength + 1),
              LoadingDataLine \o Filler(MinPageTextLength),
              BodyLine}

\* lines 527, 554, 572: the truth value of a str or None
HasContent(c) == c # NoText /\ c # <<>>

\* lines 572-573
ExtractionError == "Could not extract source content"

\* where download_source goes on after lines 526-539 or 564-570 gave c
AfterPanel(c) == IF HasContent(c) THEN "save" ELSE "fallback"

\* lines 412-534: the panel gives filtered content, which is used directly
PanelFiltered ==
    /\ op = "download" /\ dpc = "extract"
    /\ \E c \in FilteredContents : content' = c
    /\ dpc' = "save"
    /\ UNCHANGED <<notDownloadVars, op, scroll_attempts, last_length, snapshot,
                   prev_snapshot, last_change, dexit, dstatus, derror,
                   output_file, last_notebook>>

\* lines 412-539: the panel gives raw content, which is cleaned
PanelRaw ==
    /\ op = "download" /\ dpc = "extract"
    /\ \E raw \in RawContents :
          /\ content' = clean_source_content(raw, actual_name)
          /\ dpc' = AfterPanel(content')
    /\ UNCHANGED <<notDownloadVars, op, scroll_attempts, last_length, snapshot,
                   prev_snapshot, last_change, dexit, dstatus, derror,
                   output_file, last_notebook>>

\* lines 412-527: the panel gives no content; content stays None
PanelEmpty ==
    /\ op = "download" /\ dpc = "extract"
    /\ dpc' = "fallback"
    /\ UNCHANGED <<notDownloadVars, op, scroll_attempts, last_length, snapshot,
                   prev_snapshot, last_change, dexit, dstatus, content,
                   derror, output_file, last_notebook>>

\* PageFallback without the test of line 572: whatever the fallback gave is
\* saved
PageFallback_SavesEmpty ==
    /\ op = "download" /\ dpc = "fallback"
    /\ \E pagetext \in PageTexts :
          /\ content' = IF Len(pagetext) > MinPageTextLength
                        THEN clean_source_content(<<pagetext>>, actual_name)
                        ELSE <<>>
          /\ dpc' = "save"
    /\ UNCHANGED <<notDownloadVars, op, scroll_attempts, last_length, snapshot,
                   prev_snapshot, last_change, dexit, dstatus, derror,
                   output_file, last_notebook>>

\* lines 551-573: the text of the whole page, cleaned when long enough; with
\* no content after that download_source returns the extraction error
PageFallback ==
    /\ op = "download" /\ dpc = "fallback"
    /\ \E pagetext \in PageTexts :
          LET c == IF Len(pagetext) > MinPageTextLength
                   THEN clean_source_content(<<pagetext>>, actual_name)
                   ELSE content
          IN  /\ content' = c
              /\ IF HasContent(c)
                 THEN /\ dpc' = "save"
                      /\ UNCHANGED <<dstatus, derror>>
                 ELSE /\ dpc' = "done"
                      /\ dstatus' = "error"
                      /\ derror' = ExtractionError
    /\ UNCHANGED <<notDownloadVars, op, scroll_attempts, last_length, snapshot,
                   prev_snapshot, last_change, dexit, output_file,
                   last_notebook>>

\* lines 416-555 and 603-607: page.evaluate or page.content raises
ExtractRaises ==
    /\ op = "download" /\ dpc \in {"extract", "fallback"}
    /\ dpc' = "done"
    /\ dstatus' = "error"
    /\ derror' = ExceptionText
    /\ UNCHANGED <<notDownloadVars, op, scroll_attempts, last_length, snapshot,
                   prev_snapshot, last_change, dexit, content, output_file,
                   last_notebook>>

\* lines 575-601: the content is written, the notebook recorded
SaveSucceeds ==
    /\ op = "download" /\ dpc = "save"
    /\ output_file' = content
    /\ last_notebook' = set_last_notebook(last_notebook, resolved_url, <<>>)
    /\ dpc' = "done"
    /\ dstatus' = "success"
    /\ UNCHANGED <<notDownloadVars, op, scroll_attempts, last_length, snapshot,
                   prev_snapshot, last_change, dexit, content, derror>>

\* lines 575-587 and 603-607: creating the directory or the file raises
SaveRaises ==
    /\ op = "download" /\ dpc = "save"
    /\ dpc' = "done"
    /\ dstatus' = "error"
    /\ derror' = ExceptionText
    /\ UNCHANGED <<notDownloadVars, op, scroll_attempts, last_length, snapshot,
                   prev_snapshot, last_change, dexit, content, output_file,
                   last_notebook>>

\* lines 586-593 and 603-607: the file is written, set_last_notebook raises
RecordRaises ==
    /\ op = "download" /\ dpc = "save"
    /\ output_file' = content
    /\ dpc' = "done"
    /\ dstatus' = "error"
    /\ derror' = ExceptionText
    /\ UNCHANGED <<notDownloadVars, op, scroll_attempts, last_length, snapshot,
                   prev_snapshot, last_change, dexit, content, last_notebook>>

DownloadInit ==
    /\ dpc = "scroll"
    /\ scroll_attempts = 0
    /\ last_length = 0
    /\ snapshot = NoSnapshot
    /\ prev_snapshot = NoSnapshot
    /\ last_change = 0
    /\ dexit = "sampling"
    /\ dstatus = None
    /\ content = NoText
    /\ derror = None
    /\ output_file = NoText

\* config.json is absent; two scripts run at the same time may find the
\* notebook an earlier script recorded
ConfigInit ==
    last_notebook \in IF op = "concurrent"
                      THEN {EmptyConfig, [id |-> IdA, name |-> <<>>]}
                      ELSE {EmptyConfig}

DownloadNext ==
    \/ SnapshotSame
    \/ SnapshotGrew
    \/ SnapshotMissing
    \/ SnapshotRaises
    \/ ScrollExhausted
    \/ PanelFiltered
    \/ PanelRaw
    \/ PanelEmpty
    \/ PageFallback
    \/ ExtractRaises
    \/ SaveSucceeds
    \/ SaveRaises
    \/ RecordRaises

----------------------------------------------------------------------------
(* list_sources: extraction and de-duplication, list_sources.py:128-367 *)

\* lines 184-188
skipPatterns ==
    << <<"s", "e", "l", "e", "c", "t", " ", "a", "l", "l">>,
       <<"a", "d", "d", " ", "s", "o", "u", "r", "c", "e">>,
       <<"s", "e", "a", "r", "c", "h">>,
       <<"w", "e", "b">>,
       <<"f", "a", "s", "t", " ", "r", "e", "s", "e", "a", "r", "c", "h">>,
       <<"m", "a", "r", "k", "d", "o", "w", "n">>,
       <<"i", "d", "e", "o", "_">>,
       <<"y", "o", "u", "t", "u", "b", "e">>,
       <<"v", "i", "d", "e", "o", "_">>,
       <<"i", "c", "o", "n">>,
       <<"b", "u", "t", "t", "o", "n">>,
       <<"c", "h", "e", "c", "k", "b", "o", "x">>,
       <<"m", "a", "t", "-">>,
       <<"n", "g", "-">>,
       <<"c", "l", "a", "s", "s", "=">>,
       <<"s", "t", "y", "l", "e", "=">>,
       <<"a", "r", "i", "a", "-">> >>

\* \w of the regular expression at line 194
IsWordChar(c) ==
    \/ IsDigit(c)
    \/ c = "_"
    \/ LowerChar(c) \in {"a", "b", "c", "d", "e", "f", "g", "h", "i", "j",
                         "k", "l", "m", "n", "o", "p", "q", "r", "s", "t",
                         "u", "v", "w", "x", "y", "z"}

\* line 194: /\.\w{2,4}$/.test(name)
IsFilename(name) ==
    \E k \in 2..4 :
        /\ Len(name) >= k + 1
        /\ name[Len(name) - k] = "."
        /\ \A j \in (Len(name) - k + 1)..Len(name) : IsWordChar(name[j])

\* lines 181-195: addSource returns without adding
Rejected(name) ==
    LET lowerName == Lower(name)
    IN  \/ Len(name) < 5
        \/ \E k \in 1..Len(skipPatterns) :
              \/ lowerName = skipPatterns[k]
              \/ (Len(lowerName) < 15 /\ Contains(skipPatterns[k], lowerName))
        \/ (~Contains(<<" ">>, name) /\ ~IsFilename(name))

\* line 199: type || 'Document'
TypeOrDocument(type) == IF type = "" THEN "Document" ELSE type

\* lines 180-201: addSource over the rows in page order; seenNames holds
\* the lower-cased names added so far, acc is the JavaScript array sources
RECURSIVE AddSources(_, _, _)
AddSources(rows, seenNames, acc) ==
    IF rows = <<>> THEN acc
    ELSE LET name == Head(rows).name
             lowerName == Lower(name)
         IN  IF Rejected(name) \/ lowerName \in seenNames
             THEN AddSources(Tail(rows), seenNames, acc)
             ELSE AddSources(Tail(rows), seenNames \cup {lowerName},
                     Append(acc, [name |-> name,
                                  type |-> TypeOrDocument(Head(rows).type)]))

\* the lower-cased names of the sources added so far (seenNames)
SeenNames(acc) == {Lower(acc[k].name) : k \in 1..Len(acc)}

\* lines 204-209: the rows as source items, with the text of their type
\* element
ItemPairs(rows) == [k \in 1..Len(rows) |-> [name |-> Strip(rows[k].name),
                                          type |-> rows[k].type]]

\* line 225: label.replace(/^\s*check_box.*?\s*/i, '').trim()
CleanLabel(label) ==
    LET check_box == <<"c", "h", "e", "c", "k", "_", "b", "o", "x">>
    IN  IF MatchesAt(check_box, Lower(label), 1)
        THEN Strip(SubSeq(label, Len(check_box) + 1, Len(label)))
        ELSE Strip(label)

\* lines 229-232: the HTML of the row names YouTube
HasYouTubeIcon(row) ==
    \/ Contains(<<"y", "o", "u", "t", "u", "b", "e">>, row.icon)
    \/ Contains(<<"Y", "o", "u", "T", "u", "b", "e">>, row.icon)

\* lines 227-235
IconType(row) == IF HasYouTubeIcon(row) THEN "YouTube" ELSE "Document"

\* lines 219-223: the label of a checkbox item is passed on
LabelPasses(label) ==
    /\ label # <<>>
    /\ ~Contains(<<"s", "e", "l", "e", "c", "t", " ", "a", "l", "l">>, Lower(label))
    /\ ~Contains(<<"a", "d", "d", " ", "s", "o", "u", "r", "c", "e">>, Lower(label))
    /\ ~Contains(<<"s", "e", "a", "r", "c", "h">>, Lower(label))
    /\ Len(label) > 3

\* lines 216-238: the rows as checkbox items, with the type their icon gives
CheckboxPairs(rows) ==
    LET passing == SelectSeq(rows, LAMBDA r : LabelPasses(Strip(r.name)))
    IN  [k \in 1..Len(passing) |->
            [name |-> CleanLabel(Strip(passing[k].name)),
             type |-> IconType(passing[k])]]

\* lines 246-257: the rows as mat-checkbox elements
AllCheckboxPairs(rows) ==
    LET passing == SelectSeq(rows, LAMBDA r :
                       LET cbtext == Strip(r.name)
                       IN  /\ cbtext # <<>>
                           /\ ~Contains(<<"s", "e", "l", "e", "c", "t", " ",
                                          "a", "l", "l">>, Lower(cbtext))
                           /\ Len(cbtext) > 5)
    IN  [k \in 1..Len(passing) |->
            [name |-> Strip(passing[k].name),
             type |-> IF Contains(<<"y", "o", "u", "t", "u", "b", "e">>, Lower(passing[k].icon))
                      THEN "YouTube" ELSE "Document"]]

\* lines 261-280: the first ten of the lines of the page text (for each row
\* its icon label and its name) that pass the filter
TextLinePairs(rows) ==
    LET RowLines(r) == <<Strip(r.icon), Strip(r.name)>>
        all == IF rows = <<>> THEN <<>>
               ELSE [k \in 1..(2 * Len(rows)) |->
                        RowLines(rows[(k + 1) \div 2])[2 - (k % 2)]]
        passing == SelectSeq(all, LAMBDA l :
                       /\ Len(l) > 5
                       /\ ~Contains(<<"A", "d", "d", " ", "s", "o", "u", "r", "c", "e">>, l)
                       /\ ~Contains(<<"S", "e", "a", "r", "c", "h">>, l)
                       /\ ~Contains(<<"W", "e", "b">>, l)
                       /\ ~Contains(<<"F", "a", "s", "t", " ", "R", "e", "s", "e", "a", "r", "c", "h">>, l))
        first == SubSeq(passing, 1, IF Len(passing) < 10 THEN Len(passing)
                                    ELSE 10)
    IN  [k \in 1..Len(first) |-> [name |-> first[k], type |-> "Document"]]

\* lines 174-283: what the extraction script returns; late tells that the
\* page has source items by the time the script runs
ExtractInPage(rows, late) ==
    LET items == IF late THEN AddSources(ItemPairs(rows), {}, <<>>) ELSE <<>>
        boxes == AddSources(CheckboxPairs(rows), SeenNames(items), items)
        all == IF boxes # <<>> THEN boxes
               ELSE AddSources(AllCheckboxPairs(rows), {}, <<>>)
    IN  IF all # <<>> THEN all
        ELSE AddSources(TextLinePairs(rows), {}, <<>>)

\* the loop over the elements ending at the first element without a name
RECURSIVE FromElements_StopsAtFailure(_, _)
FromElements_StopsAtFailure(rows, acc) ==
    IF rows = <<>> \/ Strip(Head(rows).name) = <<>> THEN acc
    ELSE FromElements_StopsAtFailure(Tail(rows),
             Append(acc, [name |-> Strip(Head(rows).name),
                          type |-> IF Head(rows).type = "" THEN None
                                   ELSE Head(rows).type]))

\* lines 293-336: one source_info per element that has a name; an element
\* without a type element gets no 'type' key
RECURSIVE FromElements(_, _)
FromElements(rows, acc) ==
    IF rows = <<>> THEN acc
    ELSE LET name == Strip(Head(rows).name)
             type == Head(rows).type
         IN  IF name = <<>>
             THEN FromElements(Tail(rows), acc)
             ELSE FromElements(Tail(rows),
                     Append(acc, [name |-> name,
                                  type |-> IF type = "" THEN None ELSE type]))

\* the key under which line 343 looks a name up in seen_names
SeenKey(name) == name

\* the de-duplication putting each new name in front
RECURSIVE Deduplicate_Prepends(_, _, _)
Deduplicate_Prepends(srcs, seen_names, acc) ==
    IF srcs = <<>> THEN acc
    ELSE LET name == Head(srcs).name
         IN  IF name # <<>> /\ SeenKey(name) \notin seen_names
             THEN Deduplicate_Prepends(Tail(srcs),
                      seen_names \cup {SeenKey(name)}, <<Head(srcs)>> \o acc)
             ELSE Deduplicate_Prepends(Tail(srcs), seen_names, acc)

\* lines 339-345: Deduplicate by name
RECURSIVE Deduplicate(_, _, _)
Deduplicate(srcs, seen_names, acc) ==
    IF srcs = <<>> THEN acc
    ELSE LET name == Head(srcs).name
         IN  IF name # <<>> /\ SeenKey(name) \notin seen_names
             THEN Deduplicate(Tail(srcs), seen_names \cup {SeenKey(name)},
                              Append(acc, Head(srcs)))
             ELSE Deduplicate(Tail(srcs), seen_names, acc)

\* lines 148-170: one of the selectors finds the source elements
ListFindsElements ==
    /\ op = "list" /\ lpc = "find"
    /\ page_rows # <<>>
    /\ source_elements' = TRUE
    /\ lpath' = "elements"
    /\ lpc' = "elements"
    /\ UNCHANGED <<notListVars, listKept, op, sources, unique_sources,
                   lstatus>>

\* lines 148-172: no selector finds an element
ListFindsNothing ==
    /\ op = "list" /\ lpc = "find"
    /\ source_elements' = FALSE
    /\ lpc' = "javascript"
    /\ UNCHANGED <<notListVars, listKept, op, sources, unique_sources,
                   lstatus, lpath>>

\* lines 174-287: the extraction script runs in the page; a result that is
\* not empty becomes sources
ListJavaScript ==
    /\ op = "list" /\ lpc = "javascript"
    /\ \E late \in BOOLEAN :
          LET sources_data == ExtractInPage(page_rows, late)
          IN  /\ sources' = IF sources_data # <<>> THEN sources_data
                            ELSE sources
              /\ lpath' = IF late THEN "items" ELSE "checkboxes"
    /\ lpc' = "dedup"
    /\ UNCHANGED <<notListVars, listKept, op, source_elements,
                   unique_sources, lstatus>>

\* lines 288-289: page.evaluate raises; sources stays empty
ListJavaScriptRaises ==
    /\ op = "list" /\ lpc = "javascript"
    /\ lpath' = "raised"
    /\ lpc' = "dedup"
    /\ UNCHANGED <<notListVars, listKept, op, source_elements, sources,
                   unique_sources, lstatus>>

\* lines 292-336
ListElements ==
    /\ op = "list" /\ lpc = "elements"
    /\ sources' = FromElements(page_rows, <<>>)
    /\ lpc' = "dedup"
    /\ UNCHANGED <<notListVars, listKept, op, source_elements,
                   unique_sources, lstatus, lpath>>

\* the return without the fresh list of line 340: the records are added to
\* what unique_sources held
ListDeduplicates_Accumulates ==
    /\ op = "list" /\ lpc = "dedup"
    /\ unique_sources' = Deduplicate(sources, {}, unique_sources)
    /\ lstatus' = "success"
    /\ last_notebook' = set_last_notebook(last_notebook, resolved_url, <<>>)
    /\ lpc' = "done"
    /\ first_result' = IF lrun = "first" THEN unique_sources'
                       ELSE first_result
    /\ first_path' = IF lrun = "first" THEN lpath ELSE first_path
    /\ UNCHANGED <<notListVars, op, page_rows, source_elements, sources,
                   lrun, lpath>>

\* lines 338-367
ListDeduplicates ==
    /\ op = "list" /\ lpc = "dedup"
    /\ unique_sources' = Deduplicate(sources, {}, <<>>)
    /\ lstatus' = "success"
    /\ last_notebook' = set_last_notebook(last_notebook, resolved_url, <<>>)
    /\ lpc' = "done"
    /\ first_result' = IF lrun = "first" THEN unique_sources'
                       ELSE first_result
    /\ first_path' = IF lrun = "first" THEN lpath ELSE first_path
    /\ UNCHANGED <<notListVars, op, page_rows, source_elements, sources,
                   lrun, lpath>>

\* lines 59-130: list_sources is called once more on the same page; its
\* local variables start afresh (unique_sources is assigned at line 340)
ListAgain ==
    /\ op = "list" /\ lpc = "done" /\ lrun = "first"
    /\ lrun' = "second"
    /\ lpc' = "find"
    /\ sources' = <<>>
    /\ source_elements' = FALSE
    /\ lstatus' = None
    /\ lpath' = "none"
    /\ UNCHANGED <<notListVars, op, page_rows, unique_sources, first_result,
                   first_path, last_notebook>>

\* The names, type texts and icon labels the rows of the panel can show
\* 'Report A.pdf'
ReportUpper == <<"R", "e", "p", "o", "r", "t", " ", "A", ".", "p", "d", "f">>
\* 'report a.pdf'
ReportLower == <<"r", "e", "p", "o", "r", "t", " ", "a", ".", "p", "d", "f">>
\* 'My Document.pdf'
MyDocument == <<"M", "y", " ", "D", "o", "c", "u", "m", "e", "n", "t", ".",
                "p", "d", "f">>
\* 'web'
WebLabel == <<"w", "e", "b">>
\* '': a row whose name cannot be read
NoName == <<>>
\* 'drive_pdf'
DrivePdf == <<"d", "r", "i", "v", "e", "_", "p", "d", "f">>
\* 'video_youtube'
VideoYoutube == <<"v", "i", "d", "e", "o", "_", "y", "o", "u", "t", "u", "b",
                  "e">>
\* a row without an icon label
NoIcon == <<>>

\* type is the text of the type element of the row, '' without one
Rows == {[name |-> ReportUpper, type |-> "", icon |-> DrivePdf],
         [name |-> ReportLower, type |-> "YouTube", icon |-> VideoYoutube],
         [name |-> ReportUpper, type |-> "YouTube", icon |-> VideoYoutube],
         [name |-> MyDocument, type |-> "", icon |-> DrivePdf],
         [name |-> MyDocument, type |-> "Audio", icon |-> NoIcon],
         [name |-> WebLabel, type |-> "", icon |-> NoIcon],
         [name |-> NoName, type |-> "", icon |-> DrivePdf]}

\* the panel shows at most MaxRows rows
MaxRows == 3

PageRows == UNION {[1..n -> Rows] : n \in 0..MaxRows}

ListInit ==
    /\ lpc = "find"
    /\ IF op = "list" THEN page_rows \in PageRows ELSE page_rows = <<>>
    /\ source_elements = FALSE
    /\ sources = <<>>
    /\ unique_sources = <<>>
    /\ lstatus = None
    /\ lrun = "first"
    /\ lpath = "none"
    /\ first_result = <<>>
    /\ first_path = "none"

ListNext ==
    \/ ListFindsElements
    \/ ListFindsNothing
    \/ ListJavaScript
    \/ ListJavaScriptRaises
    \/ ListElements
    \/ ListDeduplicates
    \/ ListAgain

----------------------------------------------------------------------------
(* One run of a script on a notebook: the notebook is resolved from the
   arguments, the operation is carried out, the notebook is recorded.
   ask_question.py:258-346, generate_outputs.py:214-325,
   remove_source.py:20-331, list_sources.py:22-386, delete_notebook.py *)

NoNotebookSpecified == "No notebook specified"
NotebookNotFound == "Notebook not found"
ListFailed == "Failed to list notebooks"
NoMatch == "No notebook found matching"

\* a notebook URL string was resolved (id and name where the script has them)
ResolvedAs(u, i, n) ==
    [status |-> "ok", kind |-> "str", url |-> u, id |-> i, name |-> n,
     error |-> None]

\* list_sources.py:52-54: the dict of get_last_notebook is returned as it is
ResolvedDict(last) ==
    [status |-> "ok", kind |-> "dict", url |-> last.url, id |-> last.id,
     name |-> last.name, error |-> None]

Failed(e) ==
    [status |-> "error", kind |-> "str", url |-> NoText, id |-> NoText,
     name |-> NoText, error |-> e]

Unresolved == Failed(None)

\* the index of the first notebook of nbs that P(nb) holds for, or 0
FirstWhere(nbs, P(_)) ==
    IF \E i \in 1..Len(nbs) : P(nbs[i])
    THEN CHOOSE i \in 1..Len(nbs) :
             P(nbs[i]) /\ \A j \in 1..(i - 1) : ~P(nbs[j])
    ELSE 0

\* notebook_config.py:75-96: the exact match first, then the partial one
ByNameExactFirst(n, lst) ==
    LET Exact(nb) == Lower(nb.name) = Lower(n)
        Partial(nb) == Contains(Lower(n), Lower(nb.name))
        e == FirstWhere(lst.notebooks, Exact)
        p == FirstWhere(lst.notebooks, Partial)
    IN  IF lst.status # "success" THEN Failed(ListFailed)
        ELSE IF e # 0 THEN ResolvedAs(lst.notebooks[e].url, NoText, NoText)
        ELSE IF p # 0 THEN ResolvedAs(lst.notebooks[p].url, NoText, NoText)
        ELSE Failed(NotebookNotFound)

\* ask_question.py:247-255: the first notebook whose name contains the name
find_notebook_by_name(n, lst) ==
    LET Partial(nb) == Contains(Lower(n), Lower(nb.name))
        p == FirstWhere(lst.notebooks, Partial)
    IN  IF lst.status # "success" \/ p = 0 THEN Failed(NoMatch)
        ELSE ResolvedAs(lst.notebooks[p].url, lst.notebooks[p].id,
                        lst.notebooks[p].name)

\* re.search(r'/notebook/([a-f0-9-]+)', notebook_url)
ExtractId(u) ==
    IF Len(u) >= 2 /\ u[1] = NotebookUrlPrefix[1] THEN <<u[2]>> ELSE NoText

find_notebook_url_LastFirst(a, lst, config) ==
    LET last == get_last_notebook(config)
    IN  IF last # NoLast THEN ResolvedAs(last.url, NoText, NoText)
        ELSE IF Given(a.url) THEN ResolvedAs(a.url, NoText, NoText)
        ELSE IF Given(a.id) THEN ResolvedAs(NotebookUrl(a.id), NoText, NoText)
        ELSE IF Given(a.name) THEN ByNameExactFirst(a.name, lst)
        ELSE Failed(NoNotebookSpecified)

\* notebook_config.py:53-103
find_notebook_url(a, lst, config) ==
    LET last == get_last_notebook(config)
    IN  IF Given(a.url) THEN ResolvedAs(a.url, NoText, NoText)
        ELSE IF Given(a.id) THEN ResolvedAs(NotebookUrl(a.id), NoText, NoText)
        ELSE IF Given(a.name) THEN ByNameExactFirst(a.name, lst)
        ELSE IF last # NoLast THEN ResolvedAs(last.url, NoText, NoText)
        ELSE Failed(NoNotebookSpecified)

\* list_sources.py:22-56
list_find_notebook_url(a, lst, config) ==
    LET last == get_last_notebook(config)
    IN  IF Given(a.url) THEN ResolvedAs(a.url, NoText, NoText)
        ELSE IF Given(a.id) THEN ResolvedAs(NotebookUrl(a.id), NoText, NoText)
        ELSE IF Given(a.name) THEN ByNameExactFirst(a.name, lst)
        ELSE IF last # NoLast THEN ResolvedDict(last)
        ELSE Failed(NoNotebookSpecified)

\* toggle_source.py:23-53
toggle_find_notebook_url(a, lst, config) ==
    LET last == get_last_notebook(config)
    IN  IF Given(a.url) THEN ResolvedAs(a.url, NoText, NoText)
        ELSE IF Given(a.id) THEN ResolvedAs(NotebookUrl(a.id), NoText, NoText)
        ELSE IF Given(a.name) THEN ByNameExactFirst(a.name, lst)
        ELSE IF last # NoLast THEN ResolvedDict(last)
        ELSE Failed(NoNotebookSpecified)

\* ask_question.py:270-317 (generate_outputs.py:240-283 does the same)
main_resolve(a, lst, config) ==
    LET last == get_last_notebook(config)
    IN  IF Given(a.url) THEN ResolvedAs(a.url, ExtractId(a.url), NoText)
        ELSE IF Given(a.id) THEN ResolvedAs(NotebookUrl(a.id), a.id, NoText)
        ELSE IF Given(a.name) THEN find_notebook_by_name(a.name, lst)
        ELSE IF last # NoLast THEN ResolvedAs(last.url, last.id, last.name)
        ELSE Failed(NoNotebookSpecified)

\* delete_notebook.py:47-70
delete_resolve(a, lst) ==
    LET fromUrl == IF Given(a.url) THEN ExtractId(a.url) ELSE NoText
        nb == find_notebook_by_name(a.name, lst)
    IN  IF Given(fromUrl) THEN ResolvedAs(NoText, fromUrl, NoText)
        ELSE IF Given(a.id) THEN ResolvedAs(NoText, a.id, NoText)
        ELSE IF Given(a.name)
             THEN IF nb.status = "ok" THEN ResolvedAs(NoText, nb.id, nb.name)
                  ELSE nb
        ELSE Failed(NoNotebookSpecified)

\* the resolution each script makes
ResolveFor(sc, a, lst, config) ==
    CASE sc \in {"ask", "generate"} -> main_resolve(a, lst, config)
      [] sc = "remove" -> find_notebook_url(a, lst, config)
      [] sc = "list" -> list_find_notebook_url(a, lst, config)
      [] sc = "toggle" -> toggle_find_notebook_url(a, lst, config)
      [] sc = "delete" -> delete_resolve(a, lst)

\* ask_question.py:333-335 and generate_outputs.py:316-317 record the id
\* when there is one; remove_source.py:318 and list_sources.py:360 record
\* resolved_url
Recorded(config, sc, r) ==
    IF sc \in {"ask", "generate"}
    THEN IF Given(r.id)
         THEN set_last_notebook(config, r.id,
                                IF r.name = NoText THEN <<>> ELSE r.name)
         ELSE config
    ELSE set_last_notebook(config, r.url, <<>>)

\* ---- the inputs of a run

HomeUrl == <<"https://notebooklm.google.com/">>
NameAb == <<"a", "b">>
NameUpperB == <<"B">>
NameLowerB == <<"b">>
NameZ == <<"z">>

NotebookA == [id |-> IdA, name |-> NameAb, url |-> NotebookUrl(IdA)]
NotebookB == [id |-> IdB, name |-> NameUpperB, url |-> NotebookUrl(IdB)]

\* what list_notebooks returns
Listings ==
    { [status |-> "success", notebooks |-> <<NotebookA, NotebookB>>],
      [status |-> "success", notebooks |-> <<>>],
      [status |-> "error", notebooks |-> <<>>] }

Arguments ==
    [url : {NoText, NotebookUrl(IdB), HomeUrl},
     id : {NoText, IdA},
     name : {NoText, NameLowerB, NameZ}]

Scripts == {"ask", "generate", "remove", "list", "toggle", "delete"}

\* how many scripts are run one after the other
MaxRuns == 2

RunInputs ==
    /\ script' \in Scripts
    /\ args' \in Arguments
    /\ listing' \in Listings
    /\ confirm' \in IF script' = "delete" THEN BOOLEAN ELSE {TRUE}

\* ---- the steps of a run

\* the notebook is resolved; a script that cannot resolve it returns
RunResolve ==
    /\ op = "script" /\ rpc = "resolve"
    /\ resolved' = ResolveFor(script, args, listing, last_notebook)
    /\ IF resolved'.status = "error"
       THEN rpc' = "done" /\ rstatus' = "error"
       ELSE rpc' = (IF script = "delete" THEN "confirm" ELSE "operate")
              /\ rstatus' = rstatus
    /\ UNCHANGED <<notRunVars, op, script, args, listing, confirm, clicks,
                   deleted, runs, last_notebook>>

RunFails_Records ==
    /\ op = "script" /\ rpc = "operate"
    /\ rstatus' = (IF script = "ask" THEN None ELSE "error")
    /\ last_notebook' = Recorded(last_notebook, script, resolved)
    /\ rpc' = "done"
    /\ UNCHANGED <<notRunVars, op, script, args, listing, confirm, resolved,
                   clicks, deleted, runs>>

\* ask_question.py:343-345, generate_outputs.py:323-330,
\* remove_source.py:98, 279 and 327-331: the operation fails, or the answer
\* is None
RunFails ==
    /\ op = "script" /\ rpc = "operate"
    /\ rstatus' = (IF script = "ask" THEN None ELSE "error")
    /\ rpc' = "done"
    /\ UNCHANGED <<notRunVars, op, script, args, listing, confirm, resolved,
                   clicks, deleted, runs, last_notebook>>

\* ask_question.py:332-342, generate_outputs.py:316-322,
\* remove_source.py:316-325: the operation succeeds on the page it opened
RunSucceeds ==
    /\ op = "script" /\ rpc = "operate"
    /\ resolved.kind = "str"            \* page.goto(dict) raises
    /\ last_notebook' = Recorded(last_notebook, script, resolved)
    /\ rstatus' = "success"
    /\ rpc' = "done"
    /\ UNCHANGED <<notRunVars, op, script, args, listing, confirm, resolved,
                   clicks, deleted, runs>>

DeletePreview_Deletes ==
    /\ op = "script" /\ rpc = "confirm"
    /\ rpc' = "card"
    /\ UNCHANGED <<notRunVars, op, script, args, listing, confirm, resolved,
                   rstatus, clicks, deleted, runs, last_notebook>>

\* delete_notebook.py:72-78
DeletePreview ==
    /\ op = "script" /\ rpc = "confirm"
    /\ IF ~confirm
       THEN rpc' = "done" /\ rstatus' = "preview"
       ELSE rpc' = "card" /\ rstatus' = rstatus
    /\ UNCHANGED <<notRunVars, op, script, args, listing, confirm, resolved,
                   clicks, deleted, runs, last_notebook>>

\* delete_notebook.py:105-171: the card and its menu button are found, the
\* menu is opened
DeleteOpensMenu ==
    /\ op = "script" /\ rpc = "card"
    /\ clicks' = Append(clicks, "menu")
    /\ rpc' = "menu"
    /\ UNCHANGED <<notRunVars, op, script, args, listing, confirm, resolved,
                   rstatus, deleted, runs, last_notebook>>

\* lines 173-193: the Delete option is clicked
DeleteClicksDelete ==
    /\ op = "script" /\ rpc = "menu"
    /\ clicks' = Append(clicks, "delete")
    /\ rpc' = "dialog"
    /\ UNCHANGED <<notRunVars, op, script, args, listing, confirm, resolved,
                   rstatus, deleted, runs, last_notebook>>

\* lines 125-126, 164-165, 192-193 and 234-238: the card, the menu button or
\* the Delete option is not found
DeleteFails ==
    /\ op = "script" /\ rpc \in {"card", "menu"}
    /\ rstatus' = "error"
    /\ rpc' = "done"
    /\ UNCHANGED <<notRunVars, op, script, args, listing, confirm, resolved,
                   clicks, deleted, runs, last_notebook>>

\* lines 197-232: a confirmation button is clicked if one shows; success
DeleteConfirms ==
    /\ op = "script" /\ rpc = "dialog"
    /\ \E confirmed \in BOOLEAN :
           clicks' = IF confirmed THEN Append(clicks, "confirm") ELSE clicks
    /\ deleted' = deleted \cup {resolved.id}
    /\ rstatus' = "success"
    /\ rpc' = "done"
    /\ UNCHANGED <<notRunVars, op, script, args, listing, confirm, resolved,
                   runs, last_notebook>>

\* the next script is run
RunAgain ==
    /\ op = "script" /\ rpc = "done"
    /\ runs < MaxRuns
    /\ runs' = runs + 1
    /\ RunInputs
    /\ rpc' = "resolve"
    /\ resolved' = Unresolved
    /\ rstatus' = None
    /\ clicks' = <<>>
    /\ UNCHANGED <<notRunVars, op, deleted, last_notebook>>

RunInit ==
    /\ rpc = "resolve"
    /\ resolved = Unresolved
    /\ rstatus = None
    /\ clicks = <<>>
    /\ deleted = {}
    /\ runs = 1
    /\ IF op = "script"
       THEN /\ script \in Scripts
            /\ args \in Arguments
            /\ listing \in Listings
            /\ confirm \in IF script = "delete" THEN BOOLEAN ELSE {TRUE}
       ELSE /\ script = "ask"
            /\ args = [url |-> NoText, id |-> NoText, name |-> NoText]
            /\ listing = [status |-> "error", notebooks |-> <<>>]
            /\ confirm = TRUE

RunNext ==
    \/ RunResolve
    \/ RunFails
    \/ RunSucceeds
    \/ DeletePreview
    \/ DeleteOpensMenu
    \/ DeleteClicksDelete
    \/ DeleteFails
    \/ DeleteConfirms
    \/ RunAgain

----------------------------------------------------------------------------
(* cleanup_manager.py: the preview and the cleanup of the data directory *)

\* what preview_cleanup looks for, in its order (lines 48, 55 and 62)
CleanupItems == <<"browser_state/", "auth_info.json", "config.json">>

\* lines 38-77: the items that exist, in the order they are looked for
preview_cleanup(fs) ==
    SelectSeq(CleanupItems, LAMBDA it : fs[it] # "absent")

\* lines 80-109: what exists is deleted, browser_state/ is made anew
perform_cleanup(fs) ==
    [it \in DOMAIN fs |->
        IF it = "browser_state/" THEN "empty" ELSE "absent"]

ShouldPerform_Always(c) == TRUE

\* line 128: if args.confirm
ShouldPerform(c) == c

\* how many times cleanup_manager is run
MaxCleanups == 3

\* lines 123-126: the preview; with nothing found main returns
CleanupPreview ==
    /\ op = "cleanup" /\ kpc = "preview"
    /\ kitems' = preview_cleanup(files)
    /\ kpc' = IF kitems' = <<>> THEN "done" ELSE "decide"
    /\ UNCHANGED <<notCleanupVars, op, kconfirm, files, kdeleted, kruns,
                   last_notebook>>

\* lines 128-134: with --confirm perform_cleanup runs, without it only a
\* hint is printed
CleanupDecide ==
    /\ op = "cleanup" /\ kpc = "decide"
    /\ IF ShouldPerform(kconfirm)
       THEN /\ files' = perform_cleanup(files)
            /\ kdeleted' = kitems
            /\ last_notebook' = IF files["config.json"] # "absent"
                                THEN EmptyConfig ELSE last_notebook
       ELSE UNCHANGED <<files, kdeleted, last_notebook>>
    /\ kpc' = "done"
    /\ UNCHANGED <<notCleanupVars, op, kconfirm, kitems, kruns>>

\* cleanup_manager is run again
CleanupAgain ==
    /\ op = "cleanup" /\ kpc = "done"
    /\ kruns < MaxCleanups
    /\ kruns' = kruns + 1
    /\ kconfirm' \in BOOLEAN
    /\ kpc' = "preview"
    /\ kitems' = <<>>
    /\ kdeleted' = <<>>
    /\ UNCHANGED <<notCleanupVars, op, files, last_notebook>>

\* the data directories cleanup_manager can find
DataDirs ==
    { fs \in [{"browser_state/", "auth_info.json", "config.json"} ->
                  {"absent", "present", "empty"}] :
        fs["auth_info.json"] # "empty" /\ fs["config.json"] # "empty" }

CleanupInit ==
    /\ kpc = "preview"
    /\ kitems = <<>>
    /\ kdeleted = <<>>
    /\ kruns = 1
    /\ IF op = "cleanup"
       THEN files \in DataDirs /\ kconfirm \in BOOLEAN
       ELSE /\ files = [it \in {"browser_state/", "auth_info.json",
                                "config.json"} |-> "absent"]
            /\ kconfirm = FALSE

CleanupNext ==
    \/ CleanupPreview
    \/ CleanupDecide
    \/ CleanupAgain

----------------------------------------------------------------------------
(* toggle_source: the checkbox of the matching source, toggle_source.py:56-245 *)

SelectAll == <<"s", "e", "l", "e", "c", "t", " ", "a", "l", "l">>

\* lines 145-149: the first checkbox whose row text contains the name and
\* is not the row 'Select all sources'; 0 when there is none
FirstMatch(boxes, name) ==
    LET Hit(b) == /\ Contains(Lower(name), Lower(b.text))
                  /\ ~Contains(SelectAll, Lower(b.text))
    IN  IF \E i \in 1..Len(boxes) : Hit(boxes[i])
        THEN CHOOSE i \in 1..Len(boxes) :
                 Hit(boxes[i]) /\ \A j \in 1..(i - 1) : ~Hit(boxes[j])
        ELSE 0

ShouldClick_Always(activateMode, isChecked) == TRUE

\* lines 155-166
ShouldClick(activateMode, isChecked) ==
    \/ activateMode = "None"
    \/ activateMode = "True" /\ ~isChecked
    \/ activateMode = "False" /\ isChecked

\* a click on a checkbox changes its state
Click(boxes, i) == [boxes EXCEPT ![i].checked = ~boxes[i].checked]

NotReturned == [status |-> None, activated |-> FALSE, changed |-> FALSE]
ToggleError == [status |-> "error", activated |-> FALSE, changed |-> FALSE]

\* lines 133-226: the script run in the page, and what is returned
ToggleEvaluate ==
    /\ op = "toggle" /\ tpc = "evaluate"
    /\ LET i == FirstMatch(checkboxes, tname)
           isChecked == checkboxes[i].checked
       IN  IF i = 0
           THEN /\ treturn' = ToggleError
                /\ UNCHANGED <<checkboxes, tclicked, last_notebook>>
           ELSE /\ IF ShouldClick(activate, isChecked)
                   THEN /\ checkboxes' = Click(checkboxes, i)
                        /\ tclicked' = i
                        /\ treturn' = [status |-> "success",
                                       activated |-> ~isChecked,
                                       changed |-> TRUE]
                   ELSE /\ UNCHANGED <<checkboxes, tclicked>>
                        /\ treturn' = [status |-> "success",
                                       activated |-> isChecked,
                                       changed |-> FALSE]
                /\ last_notebook' =
                       set_last_notebook(last_notebook, resolved_url, <<>>)
    /\ tpc' = "done"
    /\ UNCHANGED <<notToggleVars, op, activate, tname, before, tprev, truns>>

\* lines 228-232: the page cannot be opened
ToggleRaises ==
    /\ op = "toggle" /\ tpc = "evaluate"
    /\ treturn' = ToggleError
    /\ tpc' = "done"
    /\ UNCHANGED <<notToggleVars, op, activate, tname, checkboxes, before,
                   tclicked, tprev, truns, last_notebook>>

\* how many times toggle_source is called
MaxToggles == 2

ActivateModes == {"True", "False", "None"}

NameA == <<"a">>
SourceNamesAsked == {NameA, NameLowerB, NameZ}

\* toggle_source is called again on the page as the last call left it
ToggleAgain ==
    /\ op = "toggle" /\ tpc = "done"
    /\ truns < MaxToggles
    /\ truns' = truns + 1
    /\ tprev' = [activate |-> activate, name |-> tname,
                 status |-> treturn.status]
    /\ activate' \in ActivateModes
    /\ tname' \in SourceNamesAsked
    /\ before' = checkboxes
    /\ tclicked' = 0
    /\ treturn' = NotReturned
    /\ tpc' = "evaluate"
    /\ UNCHANGED <<notToggleVars, op, checkboxes, last_notebook>>

\* the rows of the sources panel: 'Select all sources' and two sources
SourcesPanels ==
    { <<[text |-> SelectAll, checked |-> c[1]],
        [text |-> NameAb, checked |-> c[2]],
        [text |-> NameUpperB, checked |-> c[3]]>> : c \in [1..3 -> BOOLEAN] }

ToggleInit ==
    /\ tpc = "evaluate"
    /\ treturn = NotReturned
    /\ tclicked = 0
    /\ truns = 1
    /\ tprev = [activate |-> "None", name |-> NoText, status |-> None]
    /\ IF op = "toggle"
       THEN /\ checkboxes \in SourcesPanels
            /\ activate \in ActivateModes
            /\ tname \in SourceNamesAsked
       ELSE /\ checkboxes = <<>>
            /\ activate = "None"
            /\ tname = NameZ
    /\ before = checkboxes

ToggleNext ==
    \/ ToggleEvaluate
    \/ ToggleRaises
    \/ ToggleAgain

----------------------------------------------------------------------------
(* browser_session, browser_utils.py:16-53, and the same try/finally
   written out in list_sources.py:94-101 and 369-385 *)

AfterClose_Propagates(closed) == IF closed THEN "stop" ELSE "done"

\* lines 45-48: an exception of context.close() is passed over, the
\* finally block goes on to Playwright
AfterClose(closed) == "stop"

\* line 39: sync_playwright().start()
SessionStart ==
    /\ op = "session" /\ spc = "start"
    /\ playwright' = "started"
    /\ spc' = "launch"
    /\ UNCHANGED <<notSessionVars, op, context, sexit, slog, sruns>>

\* line 39 raises
SessionStartRaises ==
    /\ op = "session" /\ spc = "start"
    /\ sexit' = "exception"
    /\ spc' = "close"
    /\ UNCHANGED <<notSessionVars, op, playwright, context, slog, sruns>>

\* line 40: the persistent context is launched
SessionLaunch ==
    /\ op = "session" /\ spc = "launch"
    /\ context' = "open"
    /\ spc' = "body"
    /\ UNCHANGED <<notSessionVars, op, playwright, sexit, slog, sruns>>

\* line 40 raises: no context was made
SessionLaunchRaises ==
    /\ op = "session" /\ spc = "launch"
    /\ sexit' = "exception"
    /\ spc' = "close"
    /\ UNCHANGED <<notSessionVars, op, playwright, context, slog, sruns>>

\* lines 41-42: the page is made and the body of the with statement runs
\* to its end, returns from inside, or raises
SessionBody ==
    /\ op = "session" /\ spc = "body"
    /\ sexit' \in {"normal", "return", "exception"}
    /\ spc' = "close"
    /\ UNCHANGED <<notSessionVars, op, playwright, context, slog, sruns>>

\* lines 43-48: finally, the context if there is one is closed
SessionClose ==
    /\ op = "session" /\ spc = "close"
    /\ IF context = "open"
       THEN \E closed \in BOOLEAN :
               /\ context' = IF closed THEN "closed" ELSE "close failed"
               /\ spc' = AfterClose(closed)
               /\ slog' = Append(slog, "close")
       ELSE /\ spc' = "stop"
            /\ UNCHANGED <<context, slog>>
    /\ UNCHANGED <<notSessionVars, op, playwright, sexit, sruns>>

\* lines 49-53: Playwright if it was started is stopped
SessionStop ==
    /\ op = "session" /\ spc = "stop"
    /\ IF playwright = "started"
       THEN /\ playwright' \in {"stopped", "stop failed"}
            /\ slog' = Append(slog, "stop")
       ELSE UNCHANGED <<playwright, slog>>
    /\ spc' = "done"
    /\ UNCHANGED <<notSessionVars, op, context, sexit, sruns>>

\* how many sessions one script opens one after the other
MaxSessions == 3

\* the next session of the script (ask_question.py:247-249 and 141)
SessionAgain ==
    /\ op = "session" /\ spc = "done"
    /\ sruns < MaxSessions
    /\ sruns' = sruns + 1
    /\ spc' = "start"
    /\ playwright' = "none"
    /\ context' = "none"
    /\ slog' = <<>>
    /\ UNCHANGED <<notSessionVars, op, sexit>>

SessionInit ==
    /\ spc = "start"
    /\ playwright = "none"
    /\ context = "none"
    /\ sexit = "none"
    /\ slog = <<>>
    /\ sruns = 1

SessionNext ==
    \/ SessionStart
    \/ SessionStartRaises
    \/ SessionLaunch
    \/ SessionLaunchRaises
    \/ SessionBody
    \/ SessionClose
    \/ SessionStop
    \/ SessionAgain

----------------------------------------------------------------------------
(* Two scripts at the same time on one data directory: the reads and the
   writes of config.json, notebook_config.py:14-50 *)

\* line 29: open(CONFIG_FILE, "w") has emptied the file, json.dump has not
\* written it yet
TruncatedFile == [id |-> NoText, name |-> <<"">>]

\* lines 14-23: a file that json.load cannot read gives {}
load_config(file) == IF file = TruncatedFile THEN EmptyConfig ELSE file

Procs == {1, 2}

\* what a process does with config.json: get_last_notebook() at the start
\* of a script, or set_last_notebook(id) at its end
Tasks ==
    { [kind |-> "get", id |-> NoText],
      [kind |-> "set", id |-> IdA],
      [kind |-> "set", id |-> IdB] }

\* lines 35 and 47: config = _load_config(); get_last_notebook returns
ConcLoad(p) ==
    /\ op = "concurrent" /\ ppc[p] = "load"
    /\ loaded' = [loaded EXCEPT ![p] = load_config(last_notebook)]
    /\ IF task[p].kind = "get"
       THEN /\ got' = [got EXCEPT ![p] = get_last_notebook(loaded'[p])]
            /\ ppc' = [ppc EXCEPT ![p] = "done"]
       ELSE /\ got' = got
            /\ ppc' = [ppc EXCEPT ![p] = "open"]
    /\ UNCHANGED <<notConcVars, op, task, file0, last_notebook>>

\* line 29: open(CONFIG_FILE, "w")
ConcOpen(p) ==
    /\ op = "concurrent" /\ ppc[p] = "open"
    /\ last_notebook' = TruncatedFile
    /\ ppc' = [ppc EXCEPT ![p] = "dump"]
    /\ UNCHANGED <<notConcVars, op, task, file0, loaded, got>>

\* lines 48-50 and 30: json.dump of the config with both keys set
ConcDump(p) ==
    /\ op = "concurrent" /\ ppc[p] = "dump"
    /\ last_notebook' = set_last_notebook(loaded[p], task[p].id, <<>>)
    /\ ppc' = [ppc EXCEPT ![p] = "done"]
    /\ UNCHANGED <<notConcVars, op, task, file0, loaded, got>>

ConcInit ==
    /\ ppc = [p \in Procs |-> "load"]
    /\ loaded = [p \in Procs |-> EmptyConfig]
    /\ got = [p \in Procs |-> NoLast]
    /\ file0 = last_notebook
    /\ IF op = "concurrent"
       THEN task \in [Procs -> Tasks]
       ELSE task = [p \in Procs |-> [kind |-> "get", id |-> NoText]]

ConcNext ==
    \/ \E p \in Procs : ConcLoad(p)
    \/ \E p \in Procs : ConcOpen(p)
    \/ \E p \in Procs : ConcDump(p)

----------------------------------------------------------------------------
(* add_url_source: the steps up to the submission and the wait that follows
   it, add_source.py:79-213 *)

\* line 157: max_wait = 60
max_wait == 60

\* the source_url argument
SourceUrl == <<"https://example.org/article">>

\* the inner_text of the alert
AlertText == <<"This URL could not be loaded">>

\* lines 115-141: the exceptions raised when a step of the dialog fails
SetupErrors == {<<"Could not find Add source button">>,
                <<"Could not find Website option">>,
                <<"Could not find URL input field">>}

\* lines 209-213: the outer handler returns str(e)
ErrorResult(e) == [status |-> "error", error |-> e]

\* line 167
ErrorAddingSource(error_text) == <<"Error adding source: ">> \o error_text

\* lines 188-193
Added(source_url) == [status |-> "success", source_url |-> source_url]

CouldNotVerify ==
    <<"Could not verify source was added, please check manually">>

Unverified_Error(source_url) == ErrorResult(CouldNotVerify)

\* lines 199-207: the loop ended without an error and without the source
Unverified(source_url) ==
    [status |-> "success", source_url |-> source_url,
     note |-> CouldNotVerify]

NoResult == [status |-> "none"]

\* what a look at the page can give: the alert is absent, hidden, visible
\* without text or visible with text; a query can also raise
Alerts == {"absent", "hidden", "empty", "text", "raises"}
Loadings == {"absent", "hidden", "visible", "raises"}
Listeds == {"no", "yes", "raises"}

\* the page is free to change between two looks
PageChanges ==
    /\ alert' \in Alerts
    /\ loading' \in Loadings
    /\ listed' \in Listeds

\* lines 98-154: the dialog is opened, the URL entered and submitted;
\* line 158: start_time = time.time()
AddUrlSubmit ==
    /\ op = "addurl" /\ upc = "setup"
    /\ upc' = "while"
    /\ uelapsed' = 0
    /\ UNCHANGED <<notAddUrlVars, op, alert, loading, listed, uresult, ubusy>>

\* lines 115-141 and 209-213: a step of the dialog raises
AddUrlSetupRaises ==
    /\ op = "addurl" /\ upc = "setup"
    /\ \E e \in SetupErrors : uresult' = ErrorResult(e)
    /\ upc' = "done"
    /\ UNCHANGED <<notAddUrlVars, op, uelapsed, alert, loading, listed, ubusy>>

\* lines 160-170 and 209-213: a visible alert with text raises, and the
\* outer handler returns status error
AddUrlSeesError ==
    /\ op = "addurl" /\ upc = "while"
    /\ uelapsed < max_wait
    /\ alert = "text"
    /\ uresult' = ErrorResult(ErrorAddingSource(AlertText))
    /\ upc' = "done"
    /\ UNCHANGED <<notAddUrlVars, op, uelapsed, alert, loading, listed, ubusy>>

\* lines 172-179: the loading indicator is visible: time.sleep(1), continue
AddUrlLoading ==
    /\ op = "addurl" /\ upc = "while"
    /\ uelapsed < max_wait
    /\ alert # "text"
    /\ loading = "visible"
    /\ \E d \in 1..MaxSleepStep : uelapsed' = uelapsed + d
    /\ PageChanges
    /\ UNCHANGED <<notAddUrlVars, op, upc, uresult, ubusy>>

\* lines 181-193: the source list shows the URL
AddUrlSeesSource ==
    /\ op = "addurl" /\ upc = "while"
    /\ uelapsed < max_wait
    /\ alert # "text"
    /\ loading # "visible"
    /\ listed = "yes"
    /\ uresult' = Added(SourceUrl)
    /\ upc' = "done"
    /\ ubusy' = FALSE
    /\ UNCHANGED <<notAddUrlVars, op, uelapsed, alert, loading, listed>>

\* lines 181-197: nothing is seen (or the query raised): time.sleep(2)
AddUrlPolls ==
    /\ op = "addurl" /\ upc = "while"
    /\ uelapsed < max_wait
    /\ alert # "text"
    /\ loading # "visible"
    /\ listed # "yes"
    /\ \E d \in 2..(MaxSleepStep + 1) : uelapsed' = uelapsed + d
    /\ ubusy' = FALSE
    /\ PageChanges
    /\ UNCHANGED <<notAddUrlVars, op, upc, uresult>>

\* lines 160 and 199-207: the loop condition fails
AddUrlTimesOut ==
    /\ op = "addurl" /\ upc = "while"
    /\ uelapsed >= max_wait
    /\ uresult' = Unverified(SourceUrl)
    /\ upc' = "done"
    /\ UNCHANGED <<notAddUrlVars, op, uelapsed, alert, loading, listed, ubusy>>

AddUrlInit ==
    /\ upc = "setup"
    /\ uelapsed = 0
    /\ uresult = NoResult
    /\ ubusy = TRUE
    /\ IF op = "addurl"
       THEN /\ alert \in Alerts
            /\ loading \in Loadings
            /\ listed \in Listeds
       ELSE /\ alert = "absent"
            /\ loading = "absent"
            /\ listed = "no"

AddUrlNext ==
    \/ AddUrlSubmit
    \/ AddUrlSetupRaises
    \/ AddUrlSeesError
    \/ AddUrlLoading
    \/ AddUrlSeesSource
    \/ AddUrlPolls
    \/ AddUrlTimesOut

----------------------------------------------------------------------------
(* remove_source: the lookup of the source, the delete option and the
   confirmation, remove_source.py:20-331 *)

\* line 76: deadline = time.time() + 30
LookupSeconds == 30

\* the source_name argument and the line of the page that holds it
SourceName == <<"report">>
ActualSourceName == <<"Annual report 2024.pdf">>

SourceNotFound(name) == <<"Source not found: ">> \o name

CouldNotFindDelete ==
    <<"Could not find delete option. ",
      "Source panel may need to be opened manually.">>

\* lines 44-47 and 52-58: the notebook is not resolved, or it does not open
OpenErrors == {<<NoNotebookSpecified>>, <<"Timeout 15000ms exceeded.">>}

\* lines 320-325
Removed(source, notebook_url) ==
    [status |-> "success", source |-> source, removed |-> TRUE,
     notebook_url |-> notebook_url]

\* lines 278-282
NoDeleteOption(source) ==
    [status |-> "error", error |-> CouldNotFindDelete, source |-> source]

Clicked(seq, what) == \E i \in DOMAIN seq : seq[i] = what

\* lines 44-47, 52-58 and 327-331: no notebook, or the page does not open
RemoveFailsEarly ==
    /\ op = "remove" /\ mpc = "open"
    /\ \E e \in OpenErrors : mresult' = ErrorResult(e)
    /\ mpc' = "done"
    /\ UNCHANGED <<notRemoveVars, op, last_notebook, mnow, shown, mconfirm,
                   more_menu, context_menu, confirm_button, mclicks>>

\* lines 52-76: the notebook opens, the Sources tab is clicked, the
\* deadline is set
RemoveOpens ==
    /\ op = "remove" /\ mpc = "open"
    /\ mpc' = "lookup"
    /\ mnow' = 0
    /\ UNCHANGED <<notRemoveVars, op, last_notebook, shown, mconfirm,
                   more_menu, context_menu, confirm_button, mclicks,
                   mresult>>

\* lines 77-97: the page text does not show the source: time.sleep(2)
RemoveLooks ==
    /\ op = "remove" /\ mpc = "lookup"
    /\ mnow < LookupSeconds
    /\ ~shown
    /\ \E d \in 2..(MaxSleepStep + 1) : mnow' = mnow + d
    /\ shown' \in BOOLEAN
    /\ UNCHANGED <<notRemoveVars, op, last_notebook, mpc, mconfirm,
                   more_menu, context_menu, confirm_button, mclicks,
                   mresult>>

\* lines 77-96 and 104: a line of the page holds the name: break
RemoveFinds ==
    /\ op = "remove" /\ mpc = "lookup"
    /\ mnow < LookupSeconds
    /\ shown
    /\ mpc' = "row"
    /\ UNCHANGED <<notRemoveVars, op, last_notebook, mnow, shown, mconfirm,
                   more_menu, context_menu, confirm_button, mclicks,
                   mresult>>

\* lines 77 and 99-101: the deadline passed without a find
RemoveNotFound ==
    /\ op = "remove" /\ mpc = "lookup"
    /\ mnow >= LookupSeconds
    /\ mresult' = ErrorResult(SourceNotFound(SourceName))
    /\ mpc' = "done"
    /\ UNCHANGED <<notRemoveVars, op, last_notebook, mnow, shown, mconfirm,
                   more_menu, context_menu, confirm_button, mclicks>>

\* lines 113-239: the more-options menu of the row is opened and its
\* Delete or Remove item is clicked
RemoveMenuDelete ==
    /\ op = "remove" /\ mpc = "row"
    /\ more_menu = "delete"
    /\ mclicks' = mclicks \o <<"more", "delete">>
    /\ mpc' = "confirm"
    /\ UNCHANGED <<notRemoveVars, op, last_notebook, mnow, shown, mconfirm,
                   more_menu, context_menu, confirm_button, mresult>>

\* lines 113-248: the row is not found, its button is not clicked, the
\* evaluation raises, or the menu has no delete item (Escape is pressed)
RemoveMenuFails ==
    /\ op = "remove" /\ mpc = "row"
    /\ more_menu # "delete"
    /\ mclicks' = IF more_menu = "no item"
                  THEN mclicks \o <<"more", "escape">>
                  ELSE mclicks
    /\ mpc' = "fallback"
    /\ UNCHANGED <<notRemoveVars, op, last_notebook, mnow, shown, mconfirm,
                   more_menu, context_menu, confirm_button, mresult>>

\* lines 251-267: the right-click menu gives the delete option
RemoveContextDelete ==
    /\ op = "remove" /\ mpc = "fallback"
    /\ context_menu = "delete"
    /\ mclicks' = mclicks \o <<"right", "delete">>
    /\ mpc' = "confirm"
    /\ UNCHANGED <<notRemoveVars, op, last_notebook, mnow, shown, mconfirm,
                   more_menu, context_menu, confirm_button, mresult>>

\* lines 251-282: no delete option was clicked
RemoveNoDelete ==
    /\ op = "remove" /\ mpc = "fallback"
    /\ context_menu # "delete"
    /\ mclicks' = IF context_menu = "no item"
                  THEN Append(mclicks, "right")
                  ELSE mclicks
    /\ mresult' = NoDeleteOption(ActualSourceName)
    /\ mpc' = "done"
    /\ UNCHANGED <<notRemoveVars, op, last_notebook, mnow, shown, mconfirm,
                   more_menu, context_menu, confirm_button>>

\* lines 285-325: with confirm, the first visible confirmation button is
\* clicked, if there is one; set_last_notebook; the result
RemoveReturns ==
    /\ op = "remove" /\ mpc = "confirm"
    /\ mclicks' = IF mconfirm /\ confirm_button
                  THEN Append(mclicks, "confirm")
                  ELSE mclicks
    /\ last_notebook' = set_last_notebook(last_notebook, resolved_url, <<>>)
    /\ mresult' = Removed(ActualSourceName, resolved_url)
    /\ mpc' = "done"
    /\ UNCHANGED <<notRemoveVars, op, mnow, shown, mconfirm, more_menu,
                   context_menu, confirm_button>>

\* what the menus can offer: the delete item, no such item, or nothing
\* at all (no row, no button, or the call raised)
Menus == {"delete", "no item", "none"}

RemoveInit ==
    /\ mpc = "open"
    /\ mnow = 0
    /\ mclicks = <<>>
    /\ mresult = NoResult
    /\ IF op = "remove"
       THEN /\ shown \in BOOLEAN
            /\ mconfirm \in BOOLEAN
            /\ more_menu \in Menus
            /\ context_menu \in Menus
            /\ confirm_button \in BOOLEAN
       ELSE /\ shown = FALSE
            /\ mconfirm = TRUE
            /\ more_menu = "none"
            /\ context_menu = "none"
            /\ confirm_button = FALSE

RemoveNext ==
    \/ RemoveFailsEarly
    \/ RemoveOpens
    \/ RemoveLooks
    \/ RemoveFinds
    \/ RemoveNotFound
    \/ RemoveMenuDelete
    \/ RemoveMenuFails
    \/ RemoveContextDelete
    \/ RemoveNoDelete
    \/ RemoveReturns

----------------------------------------------------------------------------
(* Specifications *)

Ops == {"ask", "download", "clean", "list", "script", "cleanup",
        "toggle", "session", "concurrent", "addurl", "remove"}

Init ==
    /\ op \in Ops
    /\ AskInit
    /\ DownloadInit
    /\ CleanInit
    /\ ListInit
    /\ ConfigInit
    /\ RunInit
    /\ CleanupInit
    /\ ToggleInit
    /\ SessionInit
    /\ ConcInit
    /\ AddUrlInit
    /\ RemoveInit

Next ==
    \/ AskNext
    \/ DownloadNext
    \/ CleanNext
    \/ ListNext
    \/ RunNext
    \/ CleanupNext
    \/ ToggleNext
    \/ SessionNext
    \/ ConcNext
    \/ AddUrlNext
    \/ RemoveNext

Spec == Init /\ [][Next]_vars

\* The script is a sequential program that keeps running until it returns.
FairSpec == Spec /\ WF_vars(Next)

\* one call of ask_notebooklm
AskSpecInit == op = "ask" /\ Init
AskSpec == AskSpecInit /\ [][AskNext]_vars
AskFairSpec == AskSpec /\ WF_vars(AskNext)

\* one call of download_source
DownloadSpecInit == op = "download" /\ Init
DownloadSpec == DownloadSpecInit /\ [][DownloadNext]_vars
DownloadFairSpec == DownloadSpec /\ WF_vars(DownloadNext)

\* one call of clean_source_content
CleanSpecInit == op = "clean" /\ Init
CleanSpec == CleanSpecInit /\ [][CleanNext]_vars

\* one call of list_sources
ListSpecInit == op = "list" /\ Init
ListSpec == ListSpecInit /\ [][ListNext]_vars

\* scripts run one after the other
RunSpecInit == op = "script" /\ Init
RunSpec == RunSpecInit /\ [][RunNext]_vars

\* cleanup_manager run several times
CleanupSpecInit == op = "cleanup" /\ Init
CleanupSpec == CleanupSpecInit /\ [][CleanupNext]_vars

\* toggle_source called several times on one page
ToggleSpecInit == op = "toggle" /\ Init
ToggleSpec == ToggleSpecInit /\ [][ToggleNext]_vars

\* the browser sessions of one script; a script runs until it returns
SessionSpecInit == op = "session" /\ Init
SessionSpec == SessionSpecInit /\ [][SessionNext]_vars
SessionFairSpec == SessionSpec /\ WF_vars(SessionNext)

\* two processes that read or write config.json at the same time
ConcSpecInit == op = "concurrent" /\ Init
ConcSpec == ConcSpecInit /\ [][ConcNext]_vars

\* one call of add_url_source; the script runs until it returns
AddUrlSpecInit == op = "addurl" /\ Init
AddUrlSpec == AddUrlSpecInit /\ [][AddUrlNext]_vars
AddUrlFairSpec == AddUrlSpec /\ WF_vars(AddUrlNext)

\* one call of remove_source
RemoveSpecInit == op = "remove" /\ Init
RemoveSpec == RemoveSpecInit /\ [][RemoveNext]_vars

\* one call of either operation with a poll/collect loop
LoopsNext ==
    \/ AskNext
    \/ DownloadNext
LoopsSpecInit == op \in {"ask", "download"} /\ Init
LoopsSpec == LoopsSpecInit /\ [][LoopsNext]_vars

----------------------------------------------------------------------------
(* Properties of the answer-polling loop *)

\* C1: a text becomes the answer (and is returned) only when the repeat
\* counter has reached requiredStableCount; the counter goes up only by one,
\* and only on a non-empty sample equal to the recorded baseline; the answer
\* is the recorded baseline.
C1_AnswerOnlyWhenStable ==
    /\ [](answer # None =>
            (/\ stable_count >= requiredStableCount
             /\ answer = last_text
             /\ answer # ""))
    /\ [](result # None =>
            (/\ stable_count >= requiredStableCount
             /\ result = <<last_text, FOLLOW_UP_REMINDER>>))
    /\ [][stable_count' > stable_count =>
            (/\ stable_count' = stable_count + 1
             /\ text' \in Texts \ {""}
             /\ text' = last_text
             /\ last_text' = last_text)]_vars

C1_Witness ==
    /\ op = "ask" /\ apc = "done"
    /\ result = <<"a", FOLLOW_UP_REMINDER>>
    /\ stable_count = requiredStableCount

\* C2 as stated: once the samples "a","a","a","b","b","b" have been read
\* (never busy), the poll has returned "b".
C2_ReturnsBAfterSixSamples ==
    samples = StabilityCase => answer = "b"

\* C2 amended: while the history is a prefix of "a","a","a","b","b","b"
\* nothing has been returned, neither "a" nor "b" (after the sixth sample
\* the counter for "b" is 2); "b" is returned when a seventh sample is "b".
C2_ReturnsBAtSeventhSample ==
    /\ (samples # Other /\ IsPrefix(samples, StabilityCase)) =>
           /\ answer = None
           /\ (apc = "done" => result = None)
    /\ samples = StabilityCase =>
           /\ stable_count = requiredStableCount - 1
           /\ last_text = "b"
    /\ samples = StabilityCaseThenB =>
           /\ answer = "b"
           /\ (apc = "done" => result = <<"b", FOLLOW_UP_REMINDER>>)

C2_Witness ==
    /\ samples = StabilityCaseThenB
    /\ apc = "done"
    /\ result = <<"b", FOLLOW_UP_REMINDER>>

\* C3: when the loop ends because the deadline has passed, the counter is
\* below requiredStableCount and the call returns None; no call returns a
\* text whose counter is below requiredStableCount.
C3_TimeoutReturnsNone ==
    /\ aexit = "deadline" =>
           /\ now >= deadline
           /\ stable_count < requiredStableCount
           /\ answer = None
           /\ (apc = "done" => result = None)
    /\ (apc = "done" /\ stable_count < requiredStableCount) => result = None

C3_Witness ==
    /\ op = "ask" /\ apc = "done"
    /\ aexit = "deadline"
    /\ last_text = "a"
    /\ stable_count = requiredStableCount - 1
    /\ result = None

\* C4: the polling call always terminates; when stability was not reached it
\* ends by the deadline check, returning None, with the deadline elapsed (by
\* less than one sleep step).
C4_PollTerminates ==
    /\ [](op = "ask" => <>(apc = "done"))
    /\ []((apc = "done" /\ stable_count < requiredStableCount) =>
             /\ aexit = "deadline"
             /\ result = None
             /\ now >= deadline
             /\ now < deadline + MaxSleepStep)

C4_Witness ==
    /\ op = "ask" /\ apc = "done"
    /\ aexit = "deadline"
    /\ result = None
    /\ stable_count = 0
    /\ now >= deadline

\* C5: an iteration that sees the busy indicator reads no sample and leaves
\* the counter, the baseline and the answer unchanged; it sleeps and goes
\* back to the loop head.
C5_BusySkipsSampling ==
    [][(apc = "thinking" /\ thinking' = "visible") =>
          /\ text' = text
          /\ stable_count' = stable_count
          /\ last_text' = last_text
          /\ answer' = answer
          /\ now' > now
          /\ apc' = "while"]_vars

C5_Witness ==
    /\ op = "ask" /\ apc = "while"
    /\ thinking = "visible"
    /\ last_text = "a"
    /\ stable_count = requiredStableCount - 1

----------------------------------------------------------------------------
(* Properties of the poll/collect loops *)

AskSampling == apc \in {"while", "thinking", "select", "endfor"}

C9_AtMostMaxScrolls ==
    /\ [](scroll_attempts <= max_scrolls)
    /\ [](dexit = "exhausted" =>
            (/\ scroll_attempts = max_scrolls
             /\ dpc \in {"extract", "fallback", "save", "done"}
             /\ (dpc # "done" => dstatus = None)))
    /\ [][(dexit # "exhausted" /\ dexit' = "exhausted") =>
            (dpc' = "extract" /\ dstatus' = dstatus)]_vars
    /\ <>(dexit # "sampling")
    /\ <>(dpc = "done")

C9_Witness ==
    /\ dexit = "exhausted"
    /\ scroll_attempts = max_scrolls
    /\ dpc = "done"
    /\ dstatus = "success"

\* The distinct pairs of positions of a list
Pairs(list) == {pr \in (1..Len(list)) \X (1..Len(list)) : pr[1] < pr[2]}

\* The first row of the panel whose name is n up to case
FirstRowNamed(n) ==
    page_rows[CHOOSE i \in 1..Len(page_rows) :
                 /\ Lower(page_rows[i].name) = Lower(n)
                 /\ \A j \in 1..(i - 1) :
                        Lower(page_rows[j].name) # Lower(n)]

\* The record that the row w gives on the path the call took
RecordOf(w) ==
    [name |-> Strip(w.name),
     type |-> CASE lpath = "elements" ->
                       IF w.type = "" THEN None ELSE w.type
                [] lpath = "items" -> TypeOrDocument(w.type)
                [] OTHER -> IconType(w)]

\* C7 as stated: on every extraction path the list that list_sources returns
\* holds at most one record per case-insensitive name, and the record kept
\* for a name is the one of the first row observed with that name.
C7_OneRecordPerCaseInsensitiveName ==
    (op = "list" /\ lpc = "done") =>
        /\ \A pr \in Pairs(unique_sources) :
               Lower(unique_sources[pr[1]].name)
                   # Lower(unique_sources[pr[2]].name)
        /\ \A k \in 1..Len(unique_sources) :
               unique_sources[k] = RecordOf(FirstRowNamed(unique_sources[k].name))

\* The start the claim C10 describes: after the last start marker; without
\* any marker after the first line that contains the hint; otherwise 0
ClaimedStart(ls, name) ==
    LET markers == {i \in 1..Len(ls) : Strip(ls[i]) \in start_markers}
        hints == {i \in 1..Len(ls) :
                     Contains(Hint(name), Lower(Strip(ls[i])))}
    IN  IF markers # {}
        THEN CHOOSE i \in markers : \A j \in markers : j <= i
        ELSE IF hints # {}
             THEN CHOOSE i \in hints : \A j \in hints : i <= j
             ELSE 0

\* C10 as stated: clean_source_content starts the content after the last
\* start marker line; the source-name hint counts only when the text has no
\* start marker, and then the content starts after the first line with the
\* hint; a hint line after a start marker does not move the start.
C10_StartAfterLastMarker ==
    (op = "clean" /\ cpc = "done") =>
        start_idx = ClaimedStart(lines, source_name)

\* The end the claim C11 describes: the first index from start on whose line
\* equals an end marker, otherwise the length of the text
ClaimedEnd(ls, start) ==
    LET equal == {i \in 0..(Len(ls) - 1) :
                     /\ i >= start
                     /\ \E k \in 1..Len(end_markers) :
                            Strip(ls[i + 1]) = end_markers[k]}
    IN  IF equal = {} THEN Len(ls)
        ELSE CHOOSE i \in equal : \A j \in equal : i <= j

\* C11 as stated: clean_source_content ends the content at the first line,
\* scanning from the start line (that line included), that equals an end
\* marker; a line that only contains a marker does not end the content, and
\* without an equal line the content runs to the end of the text.
C11_EndsAtFirstEqualMarker ==
    (op = "clean" /\ cpc = "done") =>
        end_idx = ClaimedEnd(lines, start_idx)

\* C12: download_source returns status success only with non-empty content,
\* which is then the text of the written file, and with the notebook
\* recorded; content that is empty after the panel extraction leads to the
\* fallback on the text of the page, never to the saving; and when the
\* fallback gives no content either, download_source returns the error
\* 'Could not extract source content' with no file written and no notebook
\* recorded.
C12_SuccessOnlyWithContent ==
    /\ [](dstatus = "success" =>
            /\ HasContent(content) /\ Len(content) > 0
            /\ output_file = content
            /\ last_notebook.id = resolved_url)
    /\ [](dpc = "save" => HasContent(content))
    /\ [](derror = ExtractionError =>
            /\ dstatus = "error" /\ dpc = "done"
            /\ ~HasContent(content)
            /\ output_file = NoText
            /\ last_notebook = EmptyConfig)
    /\ [][(dpc = "extract" /\ dpc' # "done" /\ ~HasContent(content'))
              => dpc' = "fallback"]_vars
    /\ [][(dpc = "fallback" /\ dpc' # "fallback" /\ ~HasContent(content')
              /\ derror' # ExceptionText)
              => (dstatus' = "error" /\ derror' = ExtractionError)]_vars

\* cleaning the panel content gave the empty text, the page text gave no
\* content either, and download_source returned the extraction error
C12_Witness ==
    /\ op = "download" /\ dpc = "done"
    /\ content = <<>>
    /\ dstatus = "error" /\ derror = ExtractionError
    /\ output_file = NoText

\* The lines of the content region lines[start_idx:end_idx], stripped
RegionLines ==
    {Strip(lines[i + 1]) : i \in {j \in 0..(Len(lines) - 1) :
                                     start_idx <= j /\ j < end_idx}}

\* The known noise strings: the UI markers and the icon words
NoiseStrings == {ui_line_markers[k] : k \in 1..Len(ui_line_markers)}
                    \cup icon_words

\* the line s of the region is in the text returned
Retained(s) == \E k \in 1..Len(cleaned_lines) : cleaned_lines[k] = FixEntities(s)

\* C13 as stated: a line of the content region is dropped as UI noise only
\* when it equals a noise string; a non-blank line that the short-line
\* filter lets pass and that merely contains a noise string is retained.
C13_OnlyExactNoiseDropped ==
    (op = "clean" /\ cpc = "done") =>
        \A s \in RegionLines :
            (s # <<>> /\ ~IsShortLine(s) /\ s \notin NoiseStrings)
                => Retained(s)

\* The content region lines[start_idx:end_idx], each line stripped
StrippedRegion ==
    LET region == Slice(lines, start_idx, end_idx)
    IN  [i \in 1..Len(region) |-> Strip(region[i])]

\* The non-blank lines of the text returned, in order
NonBlankCleaned == SelectSeq(cleaned_lines, LAMBDA s : s # <<>>)

\* The lines of the region that are kept when ShortDropped is the short-line
\* filter, in order and with the entities fixed
KeptWith(ShortDropped(_)) ==
    LET Keep(s) == /\ s # <<>>
                   /\ ~IsUiLine(s)
                   /\ s \notin icon_words
                   /\ ~ShortDropped(s)
        kept == SelectSeq(StrippedRegion, Keep)
    IN  [i \in 1..Len(kept) |-> FixEntities(kept[i])]

\* a line shorter than 3 characters that is not purely numeric
ShortNotNumeric(s) ==
    Len(s) < 3 /\ ~(\A i \in 1..Len(s) : IsDigit(s[i]))

\* a line shorter than 3 characters whose first character is no digit
ShortNoLeadingDigit(s) ==
    Len(s) < 3 /\ s[1] \notin {"0", "1", "2", "3", "4", "5", "6", "7", "8", "9"}

BoundaryResult ==
    <<"R", "E", "A", "L", " ", "L", "I", "N", "E", " ", "1", "\n", "R", "E", "A",
    "L", " ", "L", "I", "N", "E", " ", "2">>

\* C15: for the lines 'chrome1', 'Source guide', 'REAL LINE 1',
\* 'REAL LINE 2', 'tune more_vert', 'chrome2' and a source name whose hint is
\* in none of them, clean_source_content returns 'REAL LINE 1\nREAL LINE 2'.
C15_BoundaryExtraction ==
    (op = "clean" /\ cpc = "done" /\ lines = BoundaryCase) =>
        /\ \A i \in 1..Len(lines) :
               ~Contains(Hint(source_name), Lower(Strip(lines[i])))
        /\ Join(cleaned_lines) = BoundaryResult

\* the six lines were cleaned: the content runs from index 2 to index 4
C15_Witness ==
    /\ op = "clean" /\ cpc = "done"
    /\ lines = BoundaryCase
    /\ start_idx = 2 /\ end_idx = 4
    /\ Len(cleaned_lines) = 2

\* The tag the rules of C16 give the row w: the tag of its icon label, else
\* the tag of a type keyword in its text, else Document
ClaimedTag(w) ==
    IF w.icon = DrivePdf THEN "PDF"
    ELSE IF w.icon = VideoYoutube THEN "YouTube"
    ELSE IF Contains(<<"y", "o", "u", "t", "u", "b", "e">>, Lower(w.name))
         THEN "YouTube"
    ELSE "Document"

\* C16 as stated: every record returned carries the tag that the ordered
\* rules give its row: the tag of the icon label before it ('drive_pdf'
\* gives PDF), else the tag of a type keyword in the row, else Document.
C16_TagByOrderedRules ==
    (op = "list" /\ lpc = "done") =>
        \A k \in 1..Len(unique_sources) :
            unique_sources[k].type
                = ClaimedTag(FirstRowNamed(unique_sources[k].name))

\* The closed set of tags
Tags == {"Document", "PDF", "Website", "YouTube", "Unknown"}

\* C17 as stated: every record returned by list_sources carries a type of
\* the closed set, on the JavaScript path and on the element path.
C17_TypeInClosedSet ==
    (op = "list" /\ lpc = "done") =>
        \A k \in 1..Len(unique_sources) : unique_sources[k].type \in Tags

\* The index of the first row whose name reads n
FirstExactIndex(n) ==
    CHOOSE i \in 1..Len(page_rows) :
        /\ Strip(page_rows[i].name) = n
        /\ \A j \in 1..(i - 1) : Strip(page_rows[j].name) # n

\* On the element path every row with a readable name has a record, no
\* record is without a name, and the record of a name whose first row has no
\* readable type carries the type t
ElementRowsRead(t) ==
    /\ \A k \in 1..Len(unique_sources) : unique_sources[k].name # <<>>
    /\ \A i \in 1..Len(page_rows) :
           LET n == Strip(page_rows[i].name)
           IN  n # <<>> =>
                   \E k \in 1..Len(unique_sources) :
                       /\ unique_sources[k].name = n
                       /\ page_rows[FirstExactIndex(n)].type = ""
                              => unique_sources[k].type = t

FirstIn(srcs, r) ==
    CHOOSE i \in 1..Len(srcs) :
        srcs[i] = r /\ \A j \in 1..(i - 1) : srcs[j] # r

\* C19: the records returned keep first-seen order: of two records the one
\* returned first was first seen on an earlier row, and is earlier in the
\* list that was de-duplicated.
C19_FirstSeenOrder ==
    (op = "list" /\ lpc = "done") =>
        \A pr \in Pairs(unique_sources) :
            LET a == unique_sources[pr[1]]
                b == unique_sources[pr[2]]
            IN  /\ FirstExactIndex(a.name) < FirstExactIndex(b.name)
                /\ FirstIn(sources, a) < FirstIn(sources, b)

\* three records were read, a duplicate was dropped, two were returned
C19_Witness ==
    /\ op = "list" /\ lpc = "done"
    /\ Len(sources) = 3
    /\ Len(unique_sources) = 2
    /\ unique_sources[1].name # sources[3].name

C27_OneIncrementPerIteration ==
    op = "ask" =>
        /\ bumps <= 1
        /\ (answer # None => now >= requiredStableCount)

\* C28: a selector read of a non-empty text that differs from the baseline
\* sets the repeat counter to 0 and makes the text read the new baseline;
\* the answer declared is always the baseline the repeats were counted for.
C28_ChangeResetsCounterAndBaseline ==
    [][(op = "ask" /\ apc = "select" /\ text' # text
            /\ text' # "" /\ text' # last_text)
          => (stable_count' = 0 /\ last_text' = text'
                /\ answer' = None /\ bumps' = bumps)]_vars

\* the baseline "a" had been repeated twice when "b" was read: the counter
\* is back at 0 and "b" is the baseline
C28_Witness ==
    /\ op = "ask" /\ apc = "select"
    /\ samples = <<"a", "a", "a", "b">>
    /\ text = "b" /\ last_text = "b"
    /\ stable_count = 0

\* C26: after a successful list_sources, get_last_notebook() returns the
\* notebook the call ran against: its url is the URL of the call and is
\* the URL prefix followed by its id.
C26_LastNotebookIsTheOneUsed ==
    (op = "list" /\ lpc = "done" /\ lstatus = "success") =>
        LET last == get_last_notebook(last_notebook)
        IN  /\ last.url = resolved_url
            /\ last.url = NotebookUrl(last.id)
            /\ last.id = IdA

----------------------------------------------------------------------------
(* Properties of the runs of the scripts *)

\* the resolution of the running script is over and config.json is as the
\* resolution found it
AfterResolution ==
    /\ op = "script" /\ script # "delete"
    /\ \/ rpc = "operate"
       \/ rpc = "done" /\ resolved.status = "error"

\* C22: the notebook is resolved by strict priority: a URL given is the
\* URL resolved; else an id given alone makes it; else a name given is
\* looked up in the notebook list and decides alone, a failed lookup being
\* an error; only with no argument is the last-used notebook taken, and
\* with none stored the resolution fails with 'No notebook specified'.
C22_StrictPriority ==
    AfterResolution =>
        LET a == args
            r == resolved
            last == get_last_notebook(last_notebook)
        IN  CASE Given(a.url) ->
                     r.status = "ok" /\ r.kind = "str" /\ r.url = a.url
              [] ~Given(a.url) /\ Given(a.id) ->
                     /\ r.status = "ok" /\ r.kind = "str"
                     /\ r.url = NotebookUrl(a.id)
              [] ~Given(a.url) /\ ~Given(a.id) /\ Given(a.name) ->
                     \/ /\ r.status = "ok" /\ r.kind = "str"
                        /\ listing.status = "success"
                        /\ \E i \in 1..Len(listing.notebooks) :
                               LET nb == listing.notebooks[i]
                               IN  /\ r.url = nb.url
                                   /\ Contains(Lower(a.name), Lower(nb.name))
                     \/ /\ r.status = "error"
                        /\ r.error \in {NotebookNotFound, ListFailed, NoMatch}
                        /\ \/ listing.status # "success"
                           \/ \A i \in 1..Len(listing.notebooks) :
                                  ~Contains(Lower(a.name),
                                            Lower(listing.notebooks[i].name))
              [] OTHER ->
                     IF last # NoLast
                     THEN r.status = "ok" /\ r.url = last.url
                     ELSE r.status = "error" /\ r.error = NoNotebookSpecified

\* remove_source was given a URL, an id and a name while another notebook
\* was stored as the last used: the URL given is the one resolved
C22_Witness ==
    /\ AfterResolution /\ script = "remove" /\ rpc = "operate"
    /\ Given(args.url) /\ Given(args.id) /\ Given(args.name)
    /\ get_last_notebook(last_notebook) # NoLast
    /\ resolved.url = args.url
    /\ resolved.url # get_last_notebook(last_notebook).url
    /\ resolved.url # NotebookUrl(args.id)

\* C30: config.json is written only by the step that ends a run in
\* success: a run that ends with status error, with an answer of None or
\* with a preview leaves last_notebook_id and last_notebook_name as they
\* were, and no step before the end of a run writes them.
C30_RecordedOnlyOnSuccess ==
    [][(op = "script" /\ last_notebook' # last_notebook)
          => (rpc' = "done" /\ rstatus' = "success")]_vars

\* the second script, ask_question on notebook 2b, got no answer; the
\* notebook the first script recorded is still the one stored
C30_Witness ==
    /\ op = "script" /\ runs = 2 /\ rpc = "done"
    /\ script = "ask" /\ rstatus = None
    /\ resolved.status = "ok" /\ resolved.id = IdB
    /\ last_notebook = [id |-> IdA, name |-> <<>>]

\* C23: delete_notebook with confirm=False takes no deletion step: no
\* menu, Delete or confirmation button is clicked and no notebook is
\* deleted; once the notebook is resolved it returns status 'preview' with
\* the resolved id.  Buttons are clicked only when confirm=True.
C23_PreviewDeletesNothing ==
    /\ []((op = "script" /\ script = "delete" /\ ~confirm) =>
            /\ clicks = <<>>
            /\ rpc \in {"resolve", "confirm", "done"}
            /\ (rpc = "done" /\ resolved.status = "ok") =>
                   (rstatus = "preview" /\ Given(resolved.id)))
    /\ []((op = "script" /\ clicks # <<>>) =>
            (script = "delete" /\ confirm))
    /\ [][(op = "script" /\ script = "delete" /\ ~confirm)
              => deleted' = deleted]_vars

\* a preview of the deletion of the notebook found by the name 'b'
C23_Witness ==
    /\ op = "script" /\ script = "delete" /\ ~confirm
    /\ rpc = "done" /\ rstatus = "preview"
    /\ ~Given(args.url) /\ ~Given(args.id) /\ args.name = NameLowerB
    /\ resolved.id = IdA
    /\ clicks = <<>> /\ deleted = {}

----------------------------------------------------------------------------
(* Properties of cleanup_manager *)

\* C24: a run of cleanup_manager without --confirm leaves browser_state/,
\* auth_info.json and config.json as they are, however often it is run;
\* the data directory changes only by perform_cleanup, which runs only
\* with --confirm after a preview that found at least one item.
C24_PreviewKeepsData ==
    /\ [][(op = "cleanup" /\ ~kconfirm)
              => (files' = files /\ last_notebook' = last_notebook)]_vars
    /\ [][(op = "cleanup" /\ (files' # files \/ Len(kdeleted') > 0
                                  \/ last_notebook' # last_notebook))
              => (kconfirm /\ kpc = "decide" /\ kitems # <<>>
                    /\ kitems = preview_cleanup(files))]_vars

\* the second run without --confirm has ended: the three items it listed
\* are all still there
C24_Witness ==
    /\ op = "cleanup" /\ kruns = 2 /\ kpc = "done" /\ ~kconfirm
    /\ Len(kitems) = 3
    /\ \A it \in DOMAIN files : files[it] = "present"
    /\ kdeleted = <<>>

----------------------------------------------------------------------------
(* Properties of toggle_source *)

\* C25: toggle_source clicks the checkbox of the matching source exactly
\* when it is unchecked and activate is True, checked and activate is
\* False, or activate is None, and clicks no other; 'changed' is true
\* exactly when the click was made; 'activated' is the state of the
\* checkbox after the call; and the same call with activate True or False
\* made a second time clicks nothing.
C25_ToggleClicksWhenNeeded ==
    (op = "toggle" /\ tpc = "done" /\ treturn.status = "success") =>
        LET i == FirstMatch(before, tname)
            was == before[i].checked
        IN  /\ i # 0
            /\ (tclicked # 0) <=>
                   \/ activate = "True" /\ ~was
                   \/ activate = "False" /\ was
                   \/ activate = "None"
            /\ tclicked \in {0, i}
            /\ \A j \in 1..Len(checkboxes) :
                   (checkboxes[j] # before[j]) <=> (j = tclicked)
            /\ treturn.changed <=> (tclicked # 0)
            /\ treturn.activated = checkboxes[i].checked
            /\ activate = "True" => treturn.activated
            /\ activate = "False" => ~treturn.activated
            /\ activate = "None" => (treturn.activated = ~was)
            /\ (/\ truns > 1 /\ tprev.status = "success"
                /\ tprev.activate = activate /\ tprev.name = tname
                /\ activate # "None")
                  => (~treturn.changed /\ checkboxes = before)

\* the source 'ab' was unchecked, the first call with activate=True
\* clicked it, the second call with activate=True has clicked nothing
C25_Witness ==
    /\ op = "toggle" /\ tpc = "done" /\ truns = 2
    /\ treturn = [status |-> "success", activated |-> TRUE, changed |-> FALSE]
    /\ activate = "True" /\ tprev.activate = "True"
    /\ tname = NameA /\ tprev.name = NameA /\ tprev.status = "success"
    /\ checkboxes[2].checked /\ checkboxes = before

----------------------------------------------------------------------------
(* Properties of the browser session *)

\* C29: on every way out of a session (normal end, return from inside,
\* exception) close() is called on the context that was launched and then
\* stop() on Playwright that was started, close() before stop(), and
\* stop() also when close() failed; an open context and a started
\* Playwright never outlast the session.
C29_SessionAlwaysCleanedUp ==
    /\ [](op = "session" =>
            /\ context = "open" ~> context \in {"closed", "close failed"}
            /\ playwright = "started"
                  ~> playwright \in {"stopped", "stop failed"})
    /\ []((op = "session" /\ spc = "done") =>
            /\ context # "open" /\ playwright # "started"
            /\ slog = CASE context # "none" -> <<"close", "stop">>
                         [] context = "none" /\ playwright # "none" -> <<"stop">>
                         [] OTHER -> <<>>)

\* the body raised, close() failed, and stop() was still called
C29_Witness ==
    /\ op = "session" /\ spc = "done"
    /\ sexit = "exception"
    /\ context = "close failed"
    /\ playwright = "stopped"
    /\ slog = <<"close", "stop">>

----------------------------------------------------------------------------
(* Properties of two scripts run at the same time *)

\* what a process gets and leaves in config.json when it runs alone
RunAlone(t, file) ==
    IF t.kind = "get"
    THEN [got |-> get_last_notebook(load_config(file)), file |-> file]
    ELSE [got |-> NoLast,
          file |-> set_last_notebook(load_config(file), t.id, <<>>)]

\* what the two processes get and leave when p runs before q
OneAfterTheOther(p, q) ==
    LET first == RunAlone(task[p], file0)
        second == RunAlone(task[q], first.file)
    IN  [gotp |-> first.got, gotq |-> second.got, file |-> second.file]

\* C21: when both processes have ended, what each got from config.json
\* and what config.json holds are what one of the two sequential orders
\* of the processes gives.
C21_AsSomeSequentialOrder ==
    (op = "concurrent" /\ \A p \in Procs : ppc[p] = "done") =>
        \E p \in Procs : \E q \in Procs \ {p} :
            [gotp |-> got[p], gotq |-> got[q], file |-> last_notebook]
                = OneAfterTheOther(p, q)

----------------------------------------------------------------------------
(* Properties of the resolvers compared with one another *)

\* C31: for the notebook list and the name of the run, find_notebook_by_name
\* and the name lookup of find_notebook_url of notebook_config select the
\* same notebook, or both select none.
C31_SameNotebookByName ==
    (op = "script" /\ rpc # "resolve" /\ Given(args.name)) =>
        LET byName == find_notebook_by_name(args.name, listing)
            byUrl == ByNameExactFirst(args.name, listing)
        IN  /\ byName.status = byUrl.status
            /\ byName.url = byUrl.url

\* C32: for the arguments, the notebook list and the config.json of the
\* run, find_notebook_url of notebook_config, of list_sources and of
\* toggle_source return the same, and what each returns when it succeeds
\* is a URL string, also when it is the last-used notebook's.
C32_SameUrlString ==
    AfterResolution =>
        LET c == find_notebook_url(args, listing, last_notebook)
            l == list_find_notebook_url(args, listing, last_notebook)
            t == toggle_find_notebook_url(args, listing, last_notebook)
        IN  /\ c = l /\ c = t
            /\ c.kind = "str" /\ l.kind = "str" /\ t.kind = "str"

----------------------------------------------------------------------------
(* Properties of the blank lines of the cleaned text *)

\* a line with nothing on it: empty, or white space only (line 109 tests
\* the lines of the input in this way)
IsBlank(l) == Strip(l) = <<>>

\* C33: the text clean_source_content returns has no two blank lines one
\* after the other, and neither its first nor its last line is blank.
C33_BlankLinesCollapsed ==
    (op = "clean" /\ cpc = "done" /\ cleaned_lines # <<>>) =>
        /\ \A i \in 1..(Len(cleaned_lines) - 1) :
               ~(IsBlank(cleaned_lines[i]) /\ IsBlank(cleaned_lines[i + 1]))
        /\ ~IsBlank(cleaned_lines[1])
        /\ ~IsBlank(cleaned_lines[Len(cleaned_lines)])

----------------------------------------------------------------------------
(* Properties of the last-used notebook and the deletion of notebooks *)

\* C36: the notebook stored as the last used is none of the notebooks
\* delete_notebook has reported deleted: neither its id nor the URL a
\* script that defaults to it would open is that of a deleted notebook.
C36_LastUsedNotDeleted ==
    op = "script" =>
        \A d \in deleted :
            LET last == get_last_notebook(last_notebook)
            IN  /\ last.id # d
                /\ last.id # NotebookUrl(d)
                /\ last.url # NotebookUrl(d)


----------------------------------------------------------------------------
(* Properties of add_url_source and remove_source *)

\* C34: the wait of add_url_source after the submission always ends, less
\* than one poll step after the 60 seconds, whatever the page shows (a
\* loading indicator that stays visible included).  It ends in one of three
\* ways: status error when an iteration saw a visible alert with text;
\* status success without a note when an iteration saw the URL in the
\* source list; otherwise, at the timeout, status success with the note
\* that the addition could not be verified, never status error.
C34_WaitEndsWithOneOfThreeOutcomes ==
    /\ [](op = "addurl" => <>(upc = "done"))
    /\ []((op = "addurl" /\ upc = "done") =>
             uelapsed < max_wait + MaxSleepStep + 1)
    /\ [][(upc = "while" /\ upc' = "done") =>
             IF uelapsed < max_wait /\ alert = "text"
             THEN /\ uresult'.status = "error"
                  /\ uresult'.error = ErrorAddingSource(AlertText)
             ELSE IF /\ uelapsed < max_wait
                     /\ loading # "visible"
                     /\ listed = "yes"
             THEN /\ uresult'.status = "success"
                  /\ uresult'.source_url = SourceUrl
                  /\ "note" \notin DOMAIN uresult'
             ELSE /\ uelapsed >= max_wait
                  /\ uresult'.status = "success"
                  /\ uresult'.source_url = SourceUrl
                  /\ "note" \in DOMAIN uresult'
                  /\ uresult'.note = CouldNotVerify]_vars

\* the loading indicator was visible at every look and the wait ended at
\* the timeout
C34_Witness ==
    /\ op = "addurl" /\ upc = "done"
    /\ ubusy
    /\ loading = "visible"
    /\ uelapsed >= max_wait
    /\ uresult = Unverified(SourceUrl)

\* C35: remove_source returns status success with removed: True only when
\* a Delete/Remove option was clicked and, with confirm=True, a
\* confirmation button was clicked too; when the source is not found by
\* the deadline or no delete option is clicked, it returns status error
\* and no confirmation button was clicked.
C35_SuccessOnlyAfterClicks ==
    (op = "remove" /\ mpc = "done") =>
        /\ mresult.status = "success" =>
              /\ mresult.removed = TRUE
              /\ Clicked(mclicks, "delete")
              /\ mconfirm => Clicked(mclicks, "confirm")
        /\ ~Clicked(mclicks, "delete") =>
              /\ mresult.status = "error"
              /\ ~Clicked(mclicks, "confirm")

====
